---- MODULE Spec2Model ----
(***************************************************************************)
(* The trust core of the SSDP platform (packages/audit-logger): the        *)
(* AuditLog entity, the AuditLogger store and the PermissionGuard that     *)
(* writes one audit entry per access decision.                             *)
(*                                                                         *)
(* Time is counted in whole days since 1970-01-01 (datetime.utcnow() cut   *)
(* to the day): two entries created with no Tick between them carry the    *)
(* same timestamp.  Python's None is the empty tuple and a supplied        *)
(* optional argument v is the one-element tuple <<v>>.  Enum members are   *)
(* their string values.  A dict is a TLA+ function on its keys.            *)
(*                                                                         *)
(* A permission string is the tuple of its colon-free segments.  In the    *)
(* EncryptionService part a Python value is a record with its type: a str  *)
(* holds the tuple of its code points and a bytes object the tuple of its  *)
(* bytes.  The module is modelled as it is meant to load: the key          *)
(* derivation class it imports is taken to be the library's PBKDF2HMAC.    *)
(***************************************************************************)
EXTENDS Integers, Sequences, FiniteSets, TLC

VARIABLES
    logs,       \* AuditLogger.logs, the in-process store (a list of AuditLog)
    now,        \* what datetime.utcnow() returns, in days since 1970-01-01
    nextId,     \* the id the next AuditLog gets (uuid4: never used before)
    created,    \* history: every AuditLog as it was when it was constructed
    storageOk,  \* whether the durable storage collaborator accepts a record
    threads,    \* the request-handling threads: where each is in its call
    permissions, \* PermissionGuard.permissions, the role table
    encryption_service_instance,
                \* the module global _encryption_service_instance
    violations, \* ComplianceValidator.violations, the accumulator
    request_counts,
                \* SecurityMiddleware.request_counts: IP -> [timestamp, ...]
    time,       \* what time.time() returns, in seconds
    forwarded,  \* the requests SecurityMiddleware passed on to the app
    call,       \* the last operation that ran, with its arguments
    ret         \* what that operation returned, or the error it raised

vars ==
    <<logs, now, nextId, created, storageOk, threads, permissions,
      encryption_service_instance, violations, request_counts, time,
      forwarded, call, ret>>

---------------------------------------------------------------------------
\* Bounds of the model.

\* The longest text given to encrypt, in characters.
MaxChars == 2

\* AuditLog objects built in one behaviour.
MaxEntries == 2

\* Request-handling threads that share the logger.
NumThreads == 2

\* The clock is read within MaxDrift days after the construction of the
\* logger, and within MaxDrift days after the retention period has passed.
MaxDrift == 1

\* The clock at construction of the logger: 2024-01-01.
StartDay == 19723

---------------------------------------------------------------------------
\* Python values.

None == <<>>

Some(v) == <<v>>

IsNone(o) == o = None

Val(o) == o[1]

\* bool(x) of an Optional[str]: None and "" are falsy.
TruthyStr(o) == ~IsNone(o) /\ Val(o) # ""

\* bool(x) of an Optional enum member or Optional datetime: only None is falsy.
TruthyObj(o) == ~IsNone(o)

EmptyDict == [k \in {} |-> k]

\* bool(d) of an Optional[dict]: None and {} are falsy.
TruthyDict(o) == ~IsNone(o) /\ Val(o) # EmptyDict

Min(a, b) == IF a <= b THEN a ELSE b

Max(a, b) == IF a >= b THEN a ELSE b

\* s[:n] of a list, with Python's meaning of a negative n.
SliceTo(s, n) ==
    IF n >= 0 THEN SubSeq(s, 1, Min(n, Len(s)))
    ELSE SubSeq(s, 1, Max(Len(s) + n, 0))

Last(s) == s[Len(s)]

---------------------------------------------------------------------------
\* AuditAction, ResourceType, SeverityLevel.

AuditActions ==
    {"create", "read", "update", "delete", "login", "logout",
     "access_denied", "export", "approve", "reject"}

ResourceTypes ==
    {"user", "outlet", "order", "invoice", "payment", "sales_rep", "driver",
     "vehicle", "product", "route", "report", "system", "phi", "financial"}

SeverityLevels == {"info", "warning", "error", "critical"}

---------------------------------------------------------------------------
\* AuditLog.

\* datetime.isoformat(): injective and of fixed width for the days modelled.
Isoformat(t) == ToString(t)

\* hashlib.sha256(...).hexdigest(), taken to be collision free.
Sha256(data) == <<"sha256", data>>

\* A checksum that leaves the resource id out.
GenerateChecksumWithoutResourceId(e) ==
    Sha256(Isoformat(e.timestamp) \o e.user_id \o e.action \o e.resource_type)

\* A checksum that covers the severity as well.
GenerateChecksumWithSeverity(e) ==
    Sha256(Isoformat(e.timestamp) \o e.user_id \o e.action
           \o e.resource_type \o e.resource_id \o e.severity)

\* AuditLog._generate_checksum: the five fields concatenated without separators.
GenerateChecksum(e) ==
    Sha256(Isoformat(e.timestamp) \o e.user_id \o e.action
           \o e.resource_type \o e.resource_id)

\* AuditLog.__init__.
AuditLog(id, ts, user_id, action, resource_type, resource_id, details, ip_address, user_agent, severity) ==
    LET e == [id            |-> id,
              timestamp     |-> ts,
              user_id       |-> user_id,
              action        |-> action,
              resource_type |-> resource_type,
              resource_id   |-> resource_id,
              details       |-> IF TruthyDict(details) THEN Val(details) ELSE EmptyDict,
              ip_address    |-> ip_address,
              user_agent    |-> user_agent,
              severity      |-> severity]
    IN  [id            |-> e.id,
         timestamp     |-> e.timestamp,
         user_id       |-> e.user_id,
         action        |-> e.action,
         resource_type |-> e.resource_type,
         resource_id   |-> e.resource_id,
         details       |-> e.details,
         ip_address    |-> e.ip_address,
         user_agent    |-> e.user_agent,
         severity      |-> e.severity,
         checksum      |-> GenerateChecksum(e)]

\* AuditLog.verify_integrity.
VerifyIntegrity(e) == e.checksum = GenerateChecksum(e)

---------------------------------------------------------------------------
\* PermissionGuard.  A permission string is held as the list of its
\* colon-free segments: "read:outlet" is <<"read", "outlet">>, "*" is <<"*">>.

\* PermissionGuard._initialize_permissions.
RoleTable ==
    [super_admin |-> << <<"*">> >>,
     regional_manager |->
        << <<"read", "outlet">>, <<"read", "order">>, <<"read", "sales_rep">>,
           <<"read", "driver">>, <<"read", "vehicle">>, <<"read", "report">>,
           <<"read", "invoice">>, <<"create", "sales_rep">>,
           <<"update", "sales_rep">>, <<"create", "route">>,
           <<"update", "route">>, <<"approve", "order">>,
           <<"read", "financial">> >>,
     sales_rep |->
        << <<"read", "outlet">>, <<"read", "product">>, <<"create", "order">>,
           <<"read", "order">>, <<"update", "order">>, <<"read", "route">>,
           <<"create", "outlet">>, <<"read", "sales_rep">> >>,
     driver |->
        << <<"read", "route">>, <<"read", "order">>, <<"update", "order">>,
           <<"read", "vehicle">>, <<"read", "outlet">> >>,
     finance_officer |->
        << <<"read", "invoice">>, <<"create", "invoice">>,
           <<"update", "invoice">>, <<"read", "payment">>,
           <<"create", "payment">>, <<"read", "order">>, <<"read", "outlet">>,
           <<"read", "financial">>, <<"export", "financial">>,
           <<"read", "report">> >>,
     outlet_owner |->
        << <<"read", "outlet">>, <<"read", "order">>, <<"create", "order">>,
           <<"read", "invoice">>, <<"read", "payment">>,
           <<"read", "product">> >>]

\* x in list
InList(x, list) == \E i \in 1..Len(list) : list[i] = x

\* f"{action}:{resource_type.value}" for a colon-free action.
PermissionString(action, resource_type) == <<action, resource_type>>

\* A has_permission that looks at the action part alone.
HasPermissionByAction(user_role, permission) ==
    /\ user_role \in DOMAIN permissions
    /\ \E i \in 1..Len(permissions[user_role]) :
            permissions[user_role][i][1] \in {"*", permission[1]}

\* PermissionGuard.has_permission.
HasPermission(user_role, permission) ==
    IF user_role \notin DOMAIN permissions THEN FALSE
    ELSE LET role_permissions == permissions[user_role]
             action == permission[1]
             wildcard_permission == <<action, "*">>
         IN  IF InList(<<"*">>, role_permissions) THEN TRUE
             ELSE IF InList(permission, role_permissions) THEN TRUE
             ELSE InList(wildcard_permission, role_permissions)

\* The keys of action_map in _map_action_to_audit_action.
ActionMapKeys ==
    {"create", "read", "update", "delete", "approve", "reject", "export"}

\* A mapping that records a denied request under the requested action.
MapActionIgnoringDenial(action, access_granted) ==
    IF action \in ActionMapKeys THEN action ELSE "read"

\* A mapping that records every granted request as a read.
MapActionAlwaysRead(action, access_granted) ==
    IF ~access_granted THEN "access_denied" ELSE "read"

\* PermissionGuard._map_action_to_audit_action.
MapActionToAuditAction(action, access_granted) ==
    IF ~access_granted THEN "access_denied"
    ELSE IF action \in ActionMapKeys THEN action
    ELSE "read"

---------------------------------------------------------------------------
\* AuditLogger.

\* self.retention_years
RetentionYears == 7

\* The days per year of timedelta(days=self.retention_years * 365).
DaysPerYear == 365

\* The default of get_logs' limit.
DefaultLimit == 100

\* The limit export_logs passes to get_logs.
ExportLimit == 10000

Return(v) == [raised |-> FALSE, value |-> v]

Raise(err) == [raised |-> TRUE, value |-> err]

\* The AuditLog that log() constructs from its arguments: a fresh id and the
\* current time.
NewAuditLog(user_id, action, resource_type, resource_id, details, ip_address, user_agent, severity) ==
    AuditLog(nextId, now, user_id, action, resource_type, resource_id,
             details, ip_address, user_agent, severity)

\* AuditLogger._persist_log: a stub that does nothing in the source.  The
\* durable storage it is to forward to either accepts the record or fails.
PersistLog(e) == IF storageOk THEN "ok" ELSE "raise"

\* A log() that puts the new entry in front of the store.
DoLogInFront(e, result) ==
    /\ nextId <= MaxEntries
    /\ logs' = <<e>> \o logs
    /\ nextId' = nextId + 1
    /\ created' = Append(created, e)
    /\ ret' = IF PersistLog(e) = "ok" THEN Return(result)
              ELSE Raise("PersistenceFailure")
    /\ UNCHANGED <<now, storageOk, threads, permissions,
                 encryption_service_instance, violations, request_counts, time, forwarded>>

\* A log() that persists first and appends only what was persisted.
DoLogPersistFirst(e, result) ==
    /\ nextId <= MaxEntries
    /\ logs' = IF PersistLog(e) = "ok" THEN Append(logs, e) ELSE logs
    /\ nextId' = nextId + 1
    /\ created' = Append(created, e)
    /\ ret' = IF PersistLog(e) = "ok" THEN Return(result)
              ELSE Raise("PersistenceFailure")
    /\ UNCHANGED <<now, storageOk, threads, permissions,
                 encryption_service_instance, violations, request_counts, time, forwarded>>

\* The body of AuditLogger.log once the AuditLog e is built: append, then
\* persist, then return; a caller that returns log()'s value, or a value of
\* its own, passes it as result.  An error of the persistence step is not
\* caught anywhere and reaches the caller.
DoLog(e, result) ==
    /\ nextId <= MaxEntries
    /\ logs' = Append(logs, e)
    /\ nextId' = nextId + 1
    /\ created' = Append(created, e)
    /\ ret' = IF PersistLog(e) = "ok" THEN Return(result)
              ELSE Raise("PersistenceFailure")
    /\ UNCHANGED <<now, storageOk, threads, permissions,
                 encryption_service_instance, violations, request_counts, time, forwarded>>

\* AuditLogger.log.
Log(user_id, action, resource_type, resource_id, details, ip_address, user_agent, severity) ==
    LET e == NewAuditLog(user_id, action, resource_type, resource_id,
                         details, ip_address, user_agent, severity)
    IN  /\ DoLog(e, e)
        /\ call' = [op |-> "log", user_id |-> user_id, action |-> action,
                    resource_type |-> resource_type,
                    resource_id |-> resource_id, details |-> details,
                    ip_address |-> ip_address, user_agent |-> user_agent,
                    severity |-> severity]

\* AuditLogger.log_data_access.
LogDataAccess(user_id, resource_type, resource_id, fields_accessed, ip_address) ==
    LET e == NewAuditLog(user_id, "read", resource_type, resource_id,
                         Some([fields_accessed |-> fields_accessed]),
                         ip_address, None, "info")
    IN  /\ DoLog(e, e)
        /\ call' = [op |-> "log_data_access", user_id |-> user_id,
                    resource_type |-> resource_type,
                    resource_id |-> resource_id,
                    fields_accessed |-> fields_accessed,
                    ip_address |-> ip_address]

\* AuditLogger.log_modification.
LogModification(user_id, action, resource_type, resource_id, changes, ip_address) ==
    LET e == NewAuditLog(user_id, action, resource_type, resource_id,
                         IF TruthyDict(changes)
                         THEN Some([changes |-> Val(changes)]) ELSE None,
                         ip_address, None, "info")
    IN  /\ DoLog(e, e)
        /\ call' = [op |-> "log_modification", user_id |-> user_id,
                    action |-> action, resource_type |-> resource_type,
                    resource_id |-> resource_id, changes |-> changes,
                    ip_address |-> ip_address]

\* {"event_type": event_type, **(details or {})}: a key of details wins.
SecurityEventDetails(event_type, details) ==
    (IF IsNone(details) THEN EmptyDict ELSE Val(details))
        @@ [event_type |-> event_type]

\* AuditLogger.log_security_event.
LogSecurityEvent(user_id, event_type, details, severity) ==
    LET e == NewAuditLog(user_id, "access_denied", "system", "security_event",
                         Some(SecurityEventDetails(event_type, details)),
                         None, None, severity)
    IN  /\ DoLog(e, e)
        /\ call' = [op |-> "log_security_event", user_id |-> user_id,
                    event_type |-> event_type, details |-> details,
                    severity |-> severity]

\* PermissionGuard.check_access.
CheckAccess(user_id, user_role, action, resource_type, resource_id, ip_address) ==
    LET permission == PermissionString(action, resource_type)
        has_access == HasPermission(user_role, permission)
        audit_action == MapActionToAuditAction(action, has_access)
        e == NewAuditLog(user_id, audit_action, resource_type, resource_id,
                         Some([user_role |-> user_role,
                               permission_requested |-> permission,
                               access_granted |-> has_access]),
                         ip_address, None,
                         IF ~has_access THEN "warning" ELSE "info")
    IN  /\ DoLog(e, has_access)
        /\ call' = [op |-> "check_access", user_id |-> user_id,
                    user_role |-> user_role, action |-> action,
                    resource_type |-> resource_type,
                    resource_id |-> resource_id, ip_address |-> ip_address]

\* Filters that leave to_date out.
MatchesWithoutToDate(e, f) ==
    /\ TruthyStr(f.user_id) => e.user_id = Val(f.user_id)
    /\ TruthyObj(f.resource_type) => e.resource_type = Val(f.resource_type)
    /\ TruthyStr(f.resource_id) => e.resource_id = Val(f.resource_id)
    /\ TruthyObj(f.action) => e.action = Val(f.action)
    /\ TruthyObj(f.from_date) => e.timestamp >= Val(f.from_date)

\* The six optional filters of get_logs, each applied only when truthy.
Matches(e, f) ==
    /\ TruthyStr(f.user_id) => e.user_id = Val(f.user_id)
    /\ TruthyObj(f.resource_type) => e.resource_type = Val(f.resource_type)
    /\ TruthyStr(f.resource_id) => e.resource_id = Val(f.resource_id)
    /\ TruthyObj(f.action) => e.action = Val(f.action)
    /\ TruthyObj(f.from_date) => e.timestamp >= Val(f.from_date)
    /\ TruthyObj(f.to_date) => e.timestamp <= Val(f.to_date)

\* Whether any filter of get_logs is applied, that is whether filtered_logs
\* has been rebound to a new list; if none is, it still is self.logs itself.
AnyFilter(f) ==
    \/ TruthyStr(f.user_id)
    \/ TruthyObj(f.resource_type)
    \/ TruthyStr(f.resource_id)
    \/ TruthyObj(f.action)
    \/ TruthyObj(f.from_date)
    \/ TruthyObj(f.to_date)

\* The list comprehensions of get_logs.
FilterLogs(store, f) == SelectSeq(store, LAMBDA e : Matches(e, f))

\* One insertion of the stable descending sort: x goes behind every element
\* whose timestamp is not smaller than its own.
RECURSIVE InsertDesc(_, _)
InsertDesc(sorted, x) ==
    IF sorted = <<>> THEN <<x>>
    ELSE IF Head(sorted).timestamp >= x.timestamp
         THEN <<Head(sorted)>> \o InsertDesc(Tail(sorted), x)
         ELSE <<x>> \o sorted

\* list.sort(key=lambda x: x.timestamp, reverse=True): stable, so elements of
\* equal timestamp keep the order they had.
RECURSIVE SortDesc(_)
SortDesc(list) ==
    IF list = <<>> THEN <<>>
    ELSE InsertDesc(SortDesc(SubSeq(list, 1, Len(list) - 1)), Last(list))

\* What get_logs returns.
GetLogsResult(store, f) == SliceTo(SortDesc(FilterLogs(store, f)), f.limit)

\* What get_logs leaves in self.logs: the sort is in place, on self.logs
\* itself when no filter has rebound filtered_logs.
GetLogsStore(store, f) == IF AnyFilter(f) THEN store ELSE SortDesc(store)

\* AuditLogger.get_logs.
GetLogs(f) ==
    /\ logs' = GetLogsStore(logs, f)
    /\ ret' = Return(GetLogsResult(logs, f))
    /\ call' = [op |-> "get_logs", filters |-> f]
    /\ UNCHANGED <<now, nextId, created, storageOk, threads, permissions,
                 encryption_service_instance, violations, request_counts, time, forwarded>>

\* The filters export_logs passes to get_logs.
ExportFilters(from_date, to_date) ==
    [user_id |-> None, resource_type |-> None, resource_id |-> None,
     action |-> None, from_date |-> from_date, to_date |-> to_date,
     limit |-> ExportLimit]

\* AuditLog.to_dict.
ToDict(e) ==
    [id |-> e.id, timestamp |-> Isoformat(e.timestamp), user_id |-> e.user_id,
     action |-> e.action, resource_type |-> e.resource_type,
     resource_id |-> e.resource_id, details |-> e.details,
     ip_address |-> e.ip_address, user_agent |-> e.user_agent,
     severity |-> e.severity, checksum |-> e.checksum]

\* The text of the CSV export is held as the tuple of its pieces: every
\* comma, newline and double quote is a piece of its own, and so is every
\* run of other characters between them.

\* The pieces of a value written into the text: Commas lists the values of
\* the model that hold a comma or a newline.
Commas ==
    [evil |-> <<"evil", ",", "user">>, split |-> <<"OUT", "\n", "001">>]

Pieces(value) ==
    IF value = "evil,user" THEN Commas.evil
    ELSE IF value = "OUT\n001" THEN Commas.split
    ELSE <<value>>

\* One line of the CSV export: the seven values joined by commas.
CsvLine(e) ==
    <<ToString(e.id), ",", Isoformat(e.timestamp), ",">> \o Pieces(e.user_id)
    \o <<",", e.action, ",", e.resource_type, ",">> \o Pieces(e.resource_id)
    \o <<",", e.severity>>

CsvHeader ==
    <<"id", ",", "timestamp", ",", "user_id", ",", "action", ",",
      "resource_type", ",", "resource_id", ",", "severity">>

\* "\n".join(lines)
RECURSIVE JoinLines(_)
JoinLines(lines) ==
    IF lines = <<>> THEN <<>>
    ELSE IF Len(lines) = 1 THEN lines[1]
    ELSE lines[1] \o <<"\n">> \o JoinLines(Tail(lines))

\* The text export_logs returns for the exported entries; the JSON text is
\* held as the list of the entries' dictionaries.
ExportText(exported, format) ==
    IF format = "csv"
    THEN JoinLines(<<CsvHeader>> \o [i \in 1..Len(exported) |-> CsvLine(exported[i])])
    ELSE [i \in 1..Len(exported) |-> ToDict(exported[i])]

\* AuditLogger.export_logs.
ExportLogs(from_date, to_date, format) ==
    LET f == ExportFilters(from_date, to_date)
    IN  /\ logs' = GetLogsStore(logs, f)
        /\ ret' = Return(ExportText(GetLogsResult(logs, f), format))
        /\ call' = [op |-> "export_logs", from_date |-> from_date,
                    to_date |-> to_date, format |-> format]
        /\ UNCHANGED <<now, nextId, created, storageOk, threads, permissions,
                 encryption_service_instance, violations, request_counts, time, forwarded>>

\* What verify_log_integrity returns for a store.
VerifyLogIntegrityResult(store, log_id) ==
    IF \E i \in 1..Len(store) : store[i].id = log_id
    THEN LET i == CHOOSE j \in 1..Len(store) :
                      /\ store[j].id = log_id
                      /\ \A k \in 1..(j - 1) : store[k].id # log_id
         IN  VerifyIntegrity(store[i])
    ELSE FALSE

\* AuditLogger.verify_log_integrity.
VerifyLogIntegrity(log_id) ==
    /\ ret' = Return(VerifyLogIntegrityResult(logs, log_id))
    /\ call' = [op |-> "verify_log_integrity", log_id |-> log_id]
    /\ UNCHANGED <<logs, now, nextId, created, storageOk, threads, permissions,
                 encryption_service_instance, violations, request_counts, time, forwarded>>

\* cutoff_date of cleanup_old_logs.
CutoffDate(today) == today - RetentionYears * DaysPerYear

\* The list cleanup_old_logs rebinds self.logs to.
RetainedLogs(store, today) ==
    SelectSeq(store, LAMBDA e : e.timestamp >= CutoffDate(today))

\* AuditLogger.cleanup_old_logs.
CleanupOldLogs ==
    /\ logs' = RetainedLogs(logs, now)
    /\ ret' = Return(None)
    /\ call' = [op |-> "cleanup_old_logs"]
    /\ UNCHANGED <<now, nextId, created, storageOk, threads, permissions,
                 encryption_service_instance, violations, request_counts, time, forwarded>>

---------------------------------------------------------------------------
\* The environment: the clock, and code that writes to a field of a stored
\* AuditLog (the tests do, to show that the checksum detects it).

\* The days on which the model reads the clock.
Instants ==
    {StartDay + k * (RetentionYears * DaysPerYear) + j :
        k \in 0..1, j \in 0..MaxDrift}

\* Time passes until day.
Tick(day) ==
    /\ day \in Instants
    /\ day > now
    /\ now' = day
    /\ ret' = Return(None)
    /\ call' = [op |-> "tick", day |-> day]
    /\ UNCHANGED <<logs, nextId, created, storageOk, threads, permissions,
                 encryption_service_instance, violations, request_counts, time, forwarded>>

\* log.<field> = value on the i-th entry of the store.
Tamper(i, field, value) ==
    /\ i \in 1..Len(logs)
    /\ logs' = [logs EXCEPT ![i] = [logs[i] EXCEPT ![field] = value]]
    /\ ret' = Return(None)
    /\ call' = [op |-> "tamper", id |-> logs[i].id, field |-> field,
                value |-> value]
    /\ UNCHANGED <<now, nextId, created, storageOk, threads, permissions,
                 encryption_service_instance, violations, request_counts, time, forwarded>>

\* The durable storage starts or stops accepting records.
StorageFault ==
    /\ storageOk' = ~storageOk
    /\ ret' = Return(None)
    /\ call' = [op |-> "storage_fault"]
    /\ UNCHANGED <<logs, now, nextId, created, threads, permissions,
                 encryption_service_instance, violations, request_counts, time, forwarded>>

---------------------------------------------------------------------------
\* Spec: one caller runs one AuditLogger operation after another.

Init ==
    /\ logs = <<>>
    /\ now = StartDay
    /\ nextId = 1
    /\ created = <<>>
    /\ storageOk = TRUE
    /\ threads = [t \in 1..NumThreads |-> [pc |-> "idle"]]
    /\ permissions = RoleTable
    /\ encryption_service_instance = None
    /\ violations = <<>>
    /\ request_counts = EmptyDict
    /\ time = 0
    /\ forwarded = EmptyDict
    /\ call = [op |-> "init"]
    /\ ret = Return(None)

NoFilters ==
    [user_id |-> None, resource_type |-> None, resource_id |-> None,
     action |-> None, from_date |-> None, to_date |-> None,
     limit |-> DefaultLimit]

CoreFilters ==
    {NoFilters,
     [NoFilters EXCEPT !.user_id = Some("user123")],
     [NoFilters EXCEPT !.resource_type = Some("system"), !.limit = 1]}

DoLogCall ==
    Log("user123", "update", "order", "ORD001", None, Some("10.0.0.1"),
        Some("Mozilla/5.0"), "info")

DoLogDataAccess ==
    LogDataAccess("user456", "outlet", "OUT001", <<"name", "address">>, None)

DoLogModification ==
    \E m \in {<<"update", Some([status |-> "completed"])>>, <<"delete", None>>} :
        LogModification("user123", m[1], "order", "ORD001", m[2], None)

DoLogSecurityEvent ==
    \E d \in {None, Some([event_type |-> "spoofed"])} :
        LogSecurityEvent("user456", "failed_login", d, "warning")

DoGetLogs == \E f \in CoreFilters : GetLogs(f)

DoExportLogs == \E format \in {"json", "csv"} : ExportLogs(None, None, format)

DoTick == \E day \in Instants : Tick(day)

Next ==
    \/ DoLogCall
    \/ DoLogDataAccess
    \/ DoLogModification
    \/ DoLogSecurityEvent
    \/ DoGetLogs
    \/ DoExportLogs
    \/ CleanupOldLogs
    \/ DoTick

Spec == Init /\ [][Next]_vars

---------------------------------------------------------------------------
\* The calendar, for statements about years: days since 1970-01-01 to and
\* from year, month and day of the proleptic Gregorian calendar.

IsLeapYear(y) == (y % 4 = 0 /\ y % 100 # 0) \/ y % 400 = 0

CivilFromDays(days) ==
    LET z == days + 719468
        era == z \div 146097
        doe == z - era * 146097
        yoe == (doe - doe \div 1460 + doe \div 36524 - doe \div 146096) \div 365
        doy == doe - (365 * yoe + yoe \div 4 - yoe \div 100)
        mp == (5 * doy + 2) \div 153
        d == doy - (153 * mp + 2) \div 5 + 1
        m == IF mp < 10 THEN mp + 3 ELSE mp - 9
        y == yoe + era * 400 + (IF m <= 2 THEN 1 ELSE 0)
    IN  [year |-> y, month |-> m, day |-> d]

DaysFromCivil(year, month, day) ==
    LET y == IF month <= 2 THEN year - 1 ELSE year
        era == y \div 400
        yoe == y - era * 400
        mp == IF month > 2 THEN month - 3 ELSE month + 9
        doy == (153 * mp + 2) \div 5 + day - 1
        doe == yoe * 365 + yoe \div 4 - yoe \div 100 + doy
    IN  era * 146097 + doe - 719468

\* The same date n years earlier (28 February for a 29 February that the
\* earlier year does not have).
YearsBefore(days, n) ==
    LET c == CivilFromDays(days)
        d == IF c.month = 2 /\ c.day = 29 /\ ~IsLeapYear(c.year - n)
             THEN 28 ELSE c.day
    IN  DaysFromCivil(c.year - n, c.month, d)

---------------------------------------------------------------------------
\* Claims about the sequential operations.

LogOps == {"log", "log_data_access", "log_modification", "log_security_event"}

Range(list) == {list[i] : i \in 1..Len(list)}

\* C3: get_logs, and export_logs which calls it, leave the store as it was:
\* the same entries in the same order, whatever the filters.
C3_QueriesLeaveStore ==
    [][call'.op \in {"get_logs", "export_logs"} => logs' = logs]_vars

\* C4: every log, log_data_access, log_modification and log_security_event
\* call appends exactly one new entry at the end of the store and returns that
\* entry; the entries already stored stay as they are, and only
\* cleanup_old_logs removes an entry.
C4_AppendOnly ==
    [][/\ call'.op \in LogOps =>
            /\ ~ret'.raised
            /\ logs' = Append(logs, ret'.value)
            /\ \A i \in 1..Len(created) : created[i].id # ret'.value.id
       /\ call'.op # "cleanup_old_logs" =>
            /\ Len(logs') >= Len(logs)
            /\ \A e \in Range(logs) : e \in Range(logs')]_vars

C4_Witness ==
    /\ call.op = "log_modification"
    /\ Len(logs) = 2
    /\ ret.value = logs[2]
    /\ logs[1].id # logs[2].id

\* C9: get_logs returns the matching entries in reverse order of creation,
\* also when consecutive entries carry the same timestamp.
C9_ReverseCreationOrder ==
    call.op = "get_logs" =>
        \A i, j \in 1..Len(ret.value) :
            i < j => ret.value[i].id > ret.value[j].id

\* C10: cleanup_old_logs removes exactly the entries whose timestamp is
\* earlier than now minus 7 years and keeps the others in their order.
C10_SevenYearRetention ==
    [][call'.op = "cleanup_old_logs" =>
        logs' = SelectSeq(logs,
                    LAMBDA e : ~(e.timestamp < YearsBefore(now, RetentionYears)))]_vars

---------------------------------------------------------------------------
\* SpecAccess: a caller puts one access request after another to the guard.

AccessRoles ==
    {"super_admin", "regional_manager", "sales_rep", "finance_officer", "ghost"}

AccessActions == {"read", "delete", "approve", "export", "login"}

AccessResources == {"outlet", "financial"}

DoCheckAccess ==
    \E user_role \in AccessRoles, action \in AccessActions,
       resource_type \in AccessResources :
        CheckAccess("user123", user_role, action, resource_type, "OUT001",
                    Some("10.0.0.1"))

NextAccess == DoCheckAccess

SpecAccess == Init /\ [][NextAccess]_vars

\* The permission string of the last check_access call.
Requested(c) == PermissionString(c.action, c.resource_type)

\* C1: a check_access that has_permission does not permit returns false
\* without raising and appends exactly one entry, with severity warning,
\* action access_denied and details.access_granted false.
C1_DenialIsLogged ==
    [][(call'.op = "check_access"
        /\ ~HasPermission(call'.user_role, Requested(call'))) =>
            /\ ~ret'.raised
            /\ ret'.value = FALSE
            /\ Len(logs') = Len(logs) + 1
            /\ SubSeq(logs', 1, Len(logs)) = logs
            /\ Last(logs').severity = "warning"
            /\ Last(logs').action = "access_denied"
            /\ Last(logs').details.access_granted = FALSE]_vars

C1_Witness ==
    /\ call.op = "check_access"
    /\ call.user_role = "sales_rep"
    /\ call.action = "delete"
    /\ call.resource_type = "outlet"
    /\ ret = Return(FALSE)
    /\ Len(logs) = 2
    /\ Last(logs).action = "access_denied"
    /\ Last(logs).severity = "warning"

\* C2: a check_access that has_permission grants returns true and appends
\* exactly one entry, with severity info and details.access_granted true; the
\* recorded action is one of create, read, update, delete, approve, reject and
\* export, is the requested action when that is one of them, and is never
\* access_denied.
C2_GrantIsLogged ==
    [][(call'.op = "check_access"
        /\ HasPermission(call'.user_role, Requested(call'))) =>
            /\ ~ret'.raised
            /\ ret'.value = TRUE
            /\ Len(logs') = Len(logs) + 1
            /\ SubSeq(logs', 1, Len(logs)) = logs
            /\ Last(logs').severity = "info"
            /\ Last(logs').details.access_granted = TRUE
            /\ Last(logs').action \in ActionMapKeys
            /\ Last(logs').action # "access_denied"
            /\ call'.action \in ActionMapKeys =>
                    Last(logs').action = call'.action]_vars

C2_Witness ==
    /\ call.op = "check_access"
    /\ call.user_role = "finance_officer"
    /\ call.action = "export"
    /\ call.resource_type = "financial"
    /\ ret = Return(TRUE)
    /\ Len(logs) = 2
    /\ Last(logs).action = "export"
    /\ Last(logs).severity = "info"

---------------------------------------------------------------------------
\* SpecIntegrity: entries are logged, some code writes to a field of a stored
\* entry (at most once per entry), and integrity is verified by id.

\* The fields the checksum is computed from.
ChecksumFields ==
    {"timestamp", "user_id", "action", "resource_type", "resource_id"}

\* What the tests write into a stored entry (test_audit_log_integrity,
\* test_cleanup_old_logs), and the like for the other checksum fields.
TamperValues(field) ==
    CASE field = "timestamp" -> {now - 8 * 365}
      [] field = "user_id" -> {"user456"}
      [] field = "action" -> {"delete"}
      [] field = "resource_type" -> {"invoice"}
      [] field = "resource_id" -> {"ORD002"}

Untouched(e) == e = created[e.id]

IntegrityLog ==
    Log("user123", "create", "order", "ORD001", None, None, None, "info")

DoTamper ==
    \E i \in 1..Len(logs), field \in ChecksumFields :
        \E value \in TamperValues(field) :
            /\ Untouched(logs[i])
            /\ Tamper(i, field, value)

DoVerifyLogIntegrity ==
    \E log_id \in 1..(MaxEntries + 1) : VerifyLogIntegrity(log_id)

NextIntegrity ==
    \/ IntegrityLog
    \/ DoTamper
    \/ DoVerifyLogIntegrity
    \/ CleanupOldLogs
    \/ DoTick

SpecIntegrity == Init /\ [][NextIntegrity]_vars

StoredIds == {logs[i].id : i \in 1..Len(logs)}

Stored(id) == CHOOSE e \in Range(logs) : e.id = id

\* C7: an AuditLog verifies right after creation and no longer verifies once
\* one of user_id, action, resource_type, resource_id, timestamp has been
\* changed; verify_log_integrity(id) is true for a stored entry that is as
\* created, false for a stored entry with such a change, and false for an id
\* that is not in the store (never issued, or purged by cleanup_old_logs).
C7_ChecksumDetectsChange ==
    [][/\ call'.op = "log" => VerifyIntegrity(ret'.value)
       /\ (call'.op = "tamper" /\ call'.field \in ChecksumFields) =>
            \A i \in 1..Len(logs) :
                (VerifyIntegrity(logs[i]) /\ logs'[i] # logs[i]) =>
                    ~VerifyIntegrity(logs'[i])
       /\ call'.op = "verify_log_integrity" =>
            /\ ~ret'.raised
            /\ call'.log_id \notin StoredIds => ret'.value = FALSE
            /\ call'.log_id \in StoredIds =>
                 LET e == Stored(call'.log_id)
                 IN  /\ Untouched(e) => ret'.value = TRUE
                     /\ (\E f \in ChecksumFields : e[f] # created[e.id][f]) =>
                            ret'.value = FALSE]_vars

C7_Witness ==
    /\ call.op = "verify_log_integrity"
    /\ call.log_id \in StoredIds
    /\ Stored(call.log_id).resource_id # created[call.log_id].resource_id
    /\ ret = Return(FALSE)
    /\ \E id \in 1..Len(created) : id \notin StoredIds

---------------------------------------------------------------------------
\* SpecQuery: entries that differ in the filtered fields are logged on
\* different days and the store is queried.

QueryEntries ==
    {<<"user123", "read", "outlet", "OUT001">>,
     <<"", "update", "order", "OUT002">>}

QueryLog ==
    \E q \in QueryEntries :
        Log(q[1], q[2], q[3], q[4], None, None, None, "info")

\* The filters the caller of SpecQuery passes.
QueryFilters ==
    {NoFilters,
     [NoFilters EXCEPT !.user_id = Some("")],
     [NoFilters EXCEPT !.user_id = Some("user123"),
                       !.resource_type = Some("outlet")],
     [NoFilters EXCEPT !.from_date = Some(StartDay + 1), !.limit = 1],
     [NoFilters EXCEPT !.limit = -1]}

QueryGetLogs == \E f \in QueryFilters : GetLogs(f)

NextQuery ==
    \/ QueryLog
    \/ QueryGetLogs
    \/ DoTick

SpecQuery == Init /\ [][NextQuery]_vars

\* Every combination of these values of the seven arguments of get_logs.
AllFilters ==
    [user_id : {None, Some(""), Some("user123")},
     resource_type : {None, Some("outlet")},
     resource_id : {None, Some("OUT002")},
     action : {None, Some("read")},
     from_date : {None, Some(StartDay + 1)},
     to_date : {None, Some(StartDay + 1)},
     limit : {-1, 0, 1, DefaultLimit}]

\* e satisfies every predicate that was passed (every argument that is not
\* None).
SatisfiesPassed(e, f) ==
    /\ ~IsNone(f.user_id) => e.user_id = Val(f.user_id)
    /\ ~IsNone(f.resource_type) => e.resource_type = Val(f.resource_type)
    /\ ~IsNone(f.resource_id) => e.resource_id = Val(f.resource_id)
    /\ ~IsNone(f.action) => e.action = Val(f.action)
    /\ ~IsNone(f.from_date) => e.timestamp >= Val(f.from_date)
    /\ ~IsNone(f.to_date) => e.timestamp <= Val(f.to_date)

\* e satisfies every predicate that was passed, where an empty user_id or
\* resource_id counts as not passed.
SatisfiesNonEmpty(e, f) ==
    /\ (~IsNone(f.user_id) /\ Val(f.user_id) # "") =>
            e.user_id = Val(f.user_id)
    /\ ~IsNone(f.resource_type) => e.resource_type = Val(f.resource_type)
    /\ (~IsNone(f.resource_id) /\ Val(f.resource_id) # "") =>
            e.resource_id = Val(f.resource_id)
    /\ ~IsNone(f.action) => e.action = Val(f.action)
    /\ ~IsNone(f.from_date) => e.timestamp >= Val(f.from_date)
    /\ ~IsNone(f.to_date) => e.timestamp <= Val(f.to_date)

\* answer is the entries of store that satisfy Sat, ordered by timestamp
\* descending and cut to the first f.limit of that order (to nothing for a
\* limit below 0).
IsQueryAnswer(answer, store, f, Sat(_, _)) ==
    LET result == answer
        matching == {e \in Range(store) : Sat(e, f)}
        n == Len(result)
    IN  /\ n = Min(Max(f.limit, 0), Cardinality(matching))
        /\ \A k \in 1..n : result[k] \in matching
        /\ \A i, j \in 1..n : i # j => result[i] # result[j]
        /\ \A i, j \in 1..n :
                i < j => result[i].timestamp >= result[j].timestamp
        /\ \A e \in matching \ Range(result) :
                \A k \in 1..n : result[k].timestamp >= e.timestamp

\* The store has just been written: by construction, by log(), or by the
\* sort of a get_logs without filters.  Every value the store takes is first
\* reached by such a step, and get_logs' answers are examined there.
StoreWritten ==
    \/ call.op \in {"init", "log"}
    \/ call.op = "get_logs" /\ ~AnyFilter(call.filters)

\* C8 as stated: for every combination of filters and every limit, get_logs
\* returns exactly the stored entries that satisfy every passed predicate,
\* by timestamp descending, cut to the first limit.
C8_ExactForEveryArgument ==
    /\ StoreWritten =>
            \A f \in AllFilters :
                IsQueryAnswer(GetLogsResult(logs, f), logs, f, SatisfiesPassed)
    /\ call.op = "get_logs" =>
            IsQueryAnswer(ret.value, logs, call.filters, SatisfiesPassed)

\* C8 as amended: the same for every limit >= 0, where an empty string passed
\* as user_id or resource_id counts as no filter.
C8_ExactForNonEmptyFilters ==
    /\ StoreWritten =>
            \A f \in AllFilters :
                f.limit >= 0 =>
                    IsQueryAnswer(GetLogsResult(logs, f), logs, f,
                                  SatisfiesNonEmpty)
    /\ (call.op = "get_logs" /\ call.filters.limit >= 0) =>
            IsQueryAnswer(ret.value, logs, call.filters, SatisfiesNonEmpty)

C8_Witness ==
    /\ call.op = "get_logs"
    /\ call.filters.user_id = Some("user123")
    /\ call.filters.resource_type = Some("outlet")
    /\ Len(logs) = 2
    /\ Len(ret.value) = 1

---------------------------------------------------------------------------
\* SpecPersist: the logger forwards to a durable storage that may fail.

PersistLog1 ==
    Log("user123", "update", "order", "ORD001", None, None, None, "info")

PersistLogSecurityEvent ==
    LogSecurityEvent("user456", "failed_login", None, "warning")

PersistCheckAccess ==
    \E action \in {"read", "delete"} :
        CheckAccess("user123", "sales_rep", action, "outlet", "OUT001", None)

NextPersist ==
    \/ PersistLog1
    \/ PersistLogSecurityEvent
    \/ PersistCheckAccess
    \/ StorageFault
    \/ DoGetLogs

SpecPersist == Init /\ [][NextPersist]_vars

---------------------------------------------------------------------------
\* SpecConc: request-handling threads call log() and get_logs() on one shared
\* logger.  The interpreter runs one thread at a time and may switch threads
\* between two bytecodes, so list.append is one step; it also switches inside
\* the key function of list.sort.  While a list with elements is being
\* sorted, CPython empties the list object, sorts the elements aside and puts
\* them back at the end: what other threads appended meanwhile is dropped and
\* the sort raises ValueError("list modified during sort").

Pc(t) == threads[t].pc

Free(t) == Pc(t) \in {"idle", "done"}

\* log(), up to the AuditLog it builds (audit_logger.py lines 139-148).
ThreadLogBuild(t, user_id, action, resource_type, resource_id) ==
    /\ Free(t)
    /\ nextId <= MaxEntries
    /\ LET e == NewAuditLog(user_id, action, resource_type, resource_id,
                            None, None, None, "info")
       IN  /\ threads' = [threads EXCEPT ![t] =
                            [pc |-> "log_built", op |-> "log", entry |-> e]]
           /\ created' = Append(created, e)
    /\ nextId' = nextId + 1
    /\ UNCHANGED <<logs, now, storageOk, call, ret, permissions,
                 encryption_service_instance, violations, request_counts, time, forwarded>>

\* self.logs.append(audit_log)
ThreadLogAppend(t) ==
    /\ Pc(t) = "log_built"
    /\ logs' = Append(logs, threads[t].entry)
    /\ threads' = [threads EXCEPT ![t].pc = "log_appended"]
    /\ UNCHANGED <<now, nextId, created, storageOk, call, ret, permissions,
                 encryption_service_instance, violations, request_counts, time, forwarded>>

\* self._persist_log(audit_log); return audit_log
ThreadLogReturn(t) ==
    /\ Pc(t) = "log_appended"
    /\ threads' = [threads EXCEPT ![t] =
                    [pc |-> "done", op |-> "log", entry |-> threads[t].entry,
                     ret |-> IF PersistLog(threads[t].entry) = "ok"
                             THEN Return(threads[t].entry)
                             ELSE Raise("PersistenceFailure")]]
    /\ UNCHANGED <<logs, now, nextId, created, storageOk, call, ret, permissions,
                 encryption_service_instance, violations, request_counts, time, forwarded>>

\* get_logs(), up to the sort: with a filter, filtered_logs is a new list of
\* the matching entries; with none it is self.logs itself.
ThreadGetFilter(t, f) ==
    /\ Free(t)
    /\ threads' = [threads EXCEPT ![t] =
                    [pc |-> "get_filtered", op |-> "get_logs", filters |-> f,
                     shared |-> ~AnyFilter(f),
                     filtered |-> IF AnyFilter(f) THEN FilterLogs(logs, f)
                                  ELSE <<>>]]
    /\ UNCHANGED <<logs, now, nextId, created, storageOk, call, ret, permissions,
                 encryption_service_instance, violations, request_counts, time, forwarded>>

\* filtered_logs.sort(...) on a list of the thread's own, or on self.logs
\* while it is empty (the key function is not called): one step.
ThreadSortAtOnce(t) ==
    /\ Pc(t) = "get_filtered"
    /\ ~threads[t].shared \/ logs = <<>>
    /\ threads' = [threads EXCEPT ![t].pc = "get_sorted",
                                  ![t].filtered = SortDesc(@)]
    /\ UNCHANGED <<logs, now, nextId, created, storageOk, call, ret, permissions,
                 encryption_service_instance, violations, request_counts, time, forwarded>>

\* filtered_logs.sort(...) on self.logs begins: the list object is emptied
\* and its elements are kept aside.
ThreadSortBegin(t) ==
    /\ Pc(t) = "get_filtered"
    /\ threads[t].shared
    /\ logs # <<>>
    /\ threads' = [threads EXCEPT ![t].pc = "get_sorting",
                                  ![t].filtered = logs]
    /\ logs' = <<>>
    /\ UNCHANGED <<now, nextId, created, storageOk, call, ret, permissions,
                 encryption_service_instance, violations, request_counts, time, forwarded>>

\* The sort of self.logs ends: the sorted elements are put back, in place of
\* whatever the list object holds by now, and ValueError is raised if it
\* holds anything.
ThreadSortEnd(t) ==
    /\ Pc(t) = "get_sorting"
    /\ logs' = SortDesc(threads[t].filtered)
    /\ threads' = [threads EXCEPT ![t] =
                    IF logs = <<>>
                    THEN [pc |-> "get_sorted", op |-> "get_logs",
                          filters |-> threads[t].filters, shared |-> TRUE,
                          filtered |-> <<>>]
                    ELSE [pc |-> "done", op |-> "get_logs",
                          filters |-> threads[t].filters,
                          ret |-> Raise("ValueError")]]
    /\ UNCHANGED <<now, nextId, created, storageOk, call, ret, permissions,
                 encryption_service_instance, violations, request_counts, time, forwarded>>

\* return filtered_logs[:limit]
ThreadGetReturn(t) ==
    /\ Pc(t) = "get_sorted"
    /\ threads' = [threads EXCEPT ![t] =
                    [pc |-> "done", op |-> "get_logs",
                     filters |-> threads[t].filters,
                     ret |-> Return(SliceTo(IF threads[t].shared THEN logs
                                            ELSE threads[t].filtered,
                                            threads[t].filters.limit))]]
    /\ UNCHANGED <<logs, now, nextId, created, storageOk, call, ret, permissions,
                 encryption_service_instance, violations, request_counts, time, forwarded>>

ConcFilters == {NoFilters, [NoFilters EXCEPT !.user_id = Some("user123")]}

NextConc ==
    \/ \E t \in 1..NumThreads :
            ThreadLogBuild(t, "user123", "read", "outlet", "OUT001")
    \/ \E t \in 1..NumThreads : ThreadLogAppend(t)
    \/ \E t \in 1..NumThreads : ThreadLogReturn(t)
    \/ \E t \in 1..NumThreads, f \in ConcFilters : ThreadGetFilter(t, f)
    \/ \E t \in 1..NumThreads : ThreadSortAtOnce(t)
    \/ \E t \in 1..NumThreads : ThreadSortBegin(t)
    \/ \E t \in 1..NumThreads : ThreadSortEnd(t)
    \/ \E t \in 1..NumThreads : ThreadGetReturn(t)
    \/ DoTick

SpecConc == Init /\ [][NextConc]_vars

\* No thread is inside a call.
Quiescent == \A t \in 1..NumThreads : Free(t)

\* C5: in every interleaving of log() and get_logs() calls by several
\* request handlers, each log() call leaves exactly one entry in the store,
\* and get_logs returns, without an error, only entries as they were
\* constructed, whose checksum verifies.
C5_ConcurrentCallsAreSafe ==
    /\ Quiescent =>
            \A e \in Range(created) :
                Cardinality({i \in 1..Len(logs) : logs[i] = e}) = 1
    /\ \A t \in 1..NumThreads :
            (Pc(t) = "done" /\ threads[t].op = "get_logs") =>
                /\ ~threads[t].ret.raised
                /\ \A e \in Range(threads[t].ret.value) :
                        e \in Range(created) /\ VerifyIntegrity(e)

---------------------------------------------------------------------------
\* SpecGuard: the four operations of PermissionGuard, in any order.

\* PermissionGuard.has_permission, called by a client.
HasPermissionCall(user_role, permission) ==
    /\ ret' = Return(HasPermission(user_role, permission))
    /\ call' = [op |-> "has_permission", user_role |-> user_role,
                permission |-> permission]
    /\ UNCHANGED <<logs, now, nextId, created, storageOk, threads, permissions,
                 encryption_service_instance, violations, request_counts, time, forwarded>>

\* An ownership check that compares the ids for every role but the two
\* administrative ones.
CheckResourceOwnershipForAll(user_id, resource_owner_id, user_role) ==
    /\ ret' = Return(IF user_role \in {"super_admin", "regional_manager"}
                     THEN TRUE
                     ELSE user_id = resource_owner_id)
    /\ call' = [op |-> "check_resource_ownership", user_id |-> user_id,
                resource_owner_id |-> resource_owner_id,
                user_role |-> user_role]
    /\ UNCHANGED <<logs, now, nextId, created, storageOk, threads, permissions,
                 encryption_service_instance, violations, request_counts, time, forwarded>>

\* PermissionGuard.check_resource_ownership.
CheckResourceOwnership(user_id, resource_owner_id, user_role) ==
    /\ ret' = Return(IF user_role \in {"super_admin", "regional_manager"}
                     THEN TRUE
                     ELSE IF user_role = "outlet_owner"
                     THEN user_id = resource_owner_id
                     ELSE TRUE)
    /\ call' = [op |-> "check_resource_ownership", user_id |-> user_id,
                resource_owner_id |-> resource_owner_id,
                user_role |-> user_role]
    /\ UNCHANGED <<logs, now, nextId, created, storageOk, threads, permissions,
                 encryption_service_instance, violations, request_counts, time, forwarded>>

\* A get_user_permissions that hands the role's list over and leaves the
\* role without it.
GetUserPermissionsTaking(user_role) ==
    /\ ret' = Return(IF user_role \in DOMAIN permissions
                     THEN permissions[user_role] ELSE <<>>)
    /\ call' = [op |-> "get_user_permissions", user_role |-> user_role]
    /\ permissions' = [r \in DOMAIN permissions |->
                          IF r = user_role THEN <<>> ELSE permissions[r]]
    /\ UNCHANGED <<logs, now, nextId, created, storageOk, threads,
                 encryption_service_instance, violations, request_counts, time, forwarded>>

\* PermissionGuard.get_user_permissions.
GetUserPermissions(user_role) ==
    /\ ret' = Return(IF user_role \in DOMAIN permissions
                     THEN permissions[user_role] ELSE <<>>)
    /\ call' = [op |-> "get_user_permissions", user_role |-> user_role]
    /\ UNCHANGED <<logs, now, nextId, created, storageOk, threads, permissions,
                 encryption_service_instance, violations, request_counts, time, forwarded>>

\* The roles of the table and one that is not in it.
GuardRoles ==
    {"super_admin", "regional_manager", "sales_rep", "driver",
     "finance_officer", "outlet_owner", "ghost"}

\* Permission strings: listed ones, unlisted ones, "read:*", "*", strings
\* without a colon ("read", "") and one with two colons ("read:outlet:x").
GuardPermissions ==
    { <<"read", "outlet">>, <<"read", "financial">>, <<"approve", "order">>,
      <<"create", "order">>, <<"export", "financial">>,
      <<"delete", "outlet">>, <<"read", "*">>, <<"*">>, <<"read">>, <<"">>,
      <<"read", "outlet", "x">> }

GuardHasPermission ==
    \E user_role \in GuardRoles, permission \in GuardPermissions :
        HasPermissionCall(user_role, permission)

GuardCheckAccess ==
    \E user_role \in {"sales_rep", "ghost"} :
        CheckAccess("user123", user_role, "read", "outlet", "OUT001", None)

GuardCheckResourceOwnership ==
    \E user_role \in GuardRoles, user_id \in {"user123", "user456"} :
        CheckResourceOwnership(user_id, "user123", user_role)

GuardGetUserPermissions ==
    \E user_role \in GuardRoles : GetUserPermissions(user_role)

NextGuard ==
    \/ GuardHasPermission
    \/ GuardCheckAccess
    \/ GuardCheckResourceOwnership
    \/ GuardGetUserPermissions

SpecGuard == Init /\ [][NextGuard]_vars

\* Whether the list that _initialize_permissions gives role R holds "*", p
\* itself or "<action>:*" for the action part of p.
Listed(R, p) ==
    /\ R \in DOMAIN RoleTable
    /\ \E i \in 1..Len(RoleTable[R]) :
            RoleTable[R][i] \in {<<"*">>, p, <<p[1], "*">>}

\* C11: has_permission(R, p) depends on R and p alone: no operation of the
\* guard changes the role table, every has_permission call answers what the
\* table of the constructor says, and for super_admin the answer is true
\* for every permission string, also one without a colon.
C11_HasPermissionIsAFunction ==
    [][/\ permissions' = permissions
       /\ call'.op = "has_permission" =>
            /\ ret' = Return(Listed(call'.user_role, call'.permission))
            /\ call'.user_role = "super_admin" => ret' = Return(TRUE)]_vars

\* has_permission has answered true to super_admin for a string without a
\* colon, after a check_access wrote an entry.
C11_Witness ==
    /\ call.op = "has_permission"
    /\ call.user_role = "super_admin"
    /\ call.permission = <<"read">>
    /\ ret = Return(TRUE)
    /\ logs # <<>>

\* The roles whose lists hold neither "*" nor an "<action>:*" entry.
PlainRoles ==
    {"regional_manager", "sales_rep", "driver", "finance_officer",
     "outlet_owner"}

\* C12: for every role and permission string has_permission is true exactly
\* when the role is in the table and its list holds "*", the string itself
\* or "<action>:*"; it is false for an unknown role, and for the five roles
\* below super_admin it is true only for the strings in the role's list.
C12_HasPermissionByTable ==
    \A R \in GuardRoles, p \in GuardPermissions :
        /\ HasPermission(R, p) <=> Listed(R, p)
        /\ R \notin DOMAIN RoleTable => ~HasPermission(R, p)
        /\ R \in PlainRoles => (HasPermission(R, p) <=> InList(p, RoleTable[R]))
        /\ ~HasPermission("sales_rep", <<"read", "financial">>)
        /\ ~HasPermission("sales_rep", <<"approve", "order">>)
        /\ ~HasPermission("driver", <<"create", "order">>)

\* has_permission has refused read:financial to sales_rep.
C12_Witness ==
    /\ call.op = "has_permission"
    /\ call.user_role = "sales_rep"
    /\ call.permission = <<"read", "financial">>
    /\ ret = Return(FALSE)

\* C13: check_resource_ownership is true for super_admin and
\* regional_manager whatever the ids, true for outlet_owner exactly when
\* user_id equals resource_owner_id, true for every other role string, also
\* one that is not in the role table; it writes nothing to the audit store.
C13_OwnershipByRole ==
    [][call'.op = "check_resource_ownership" =>
        /\ logs' = logs
        /\ ~ret'.raised
        /\ ret'.value =
              CASE call'.user_role \in {"super_admin", "regional_manager"}
                        -> TRUE
                [] call'.user_role = "outlet_owner"
                        -> (call'.user_id = call'.resource_owner_id)
                [] OTHER -> TRUE]_vars

\* check_resource_ownership has let a role outside the table through with
\* ids that differ, with an entry in the store.
C13_Witness ==
    /\ call.op = "check_resource_ownership"
    /\ call.user_role = "ghost"
    /\ call.user_id # call.resource_owner_id
    /\ ret = Return(TRUE)
    /\ logs # <<>>

---------------------------------------------------------------------------
\* The logging wrappers, under Spec.

\* C14: log_modification records the given action with details.changes and
\* severity info, except that a delete is recorded with severity warning.
C14_DeleteEscalates ==
    [][call'.op = "log_modification" =>
        LET e == Last(logs')
        IN  /\ e.action = call'.action
            /\ TruthyDict(call'.changes) =>
                    e.details = [changes |-> Val(call'.changes)]
            /\ e.severity = IF call'.action = "delete" THEN "warning"
                            ELSE "info"]_vars

\* C15: the entry that log_security_event stores has action access_denied,
\* resource type system, the given severity, and details.event_type equal
\* to the event_type argument, whatever keys the details argument holds.
C15_EventTypeRecorded ==
    [][call'.op = "log_security_event" =>
        LET e == Last(logs')
        IN  /\ e.action = "access_denied"
            /\ e.resource_type = "system"
            /\ e.severity = call'.severity
            /\ e.details.event_type = call'.event_type]_vars

---------------------------------------------------------------------------
\* SpecExport: entries whose user_id or resource_id holds a comma or a
\* newline, and their export.

ExportLog ==
    \E user_id \in {"user123", "evil,user"},
       resource_id \in {"OUT001", "OUT\n001"} :
        Log(user_id, "read", "outlet", resource_id, None, None, None, "info")

NextExport ==
    \/ ExportLog
    \/ DoExportLogs
    \/ DoTick

SpecExport == Init /\ [][NextExport]_vars

\* A CSV text as its reader sees it: the rows, each the tuple of its fields,
\* each field the tuple of its pieces.  A double quote opens and closes a
\* quoted stretch, in which a comma and a newline are part of the field and
\* two double quotes stand for one.
RECURSIVE CsvRead(_, _, _, _, _)
CsvRead(text, quoted, field, row, rows) ==
    IF text = <<>> THEN Append(rows, Append(row, field))
    ELSE LET c == Head(text)
             rest == Tail(text)
         IN  IF quoted
             THEN IF c = "\""
                  THEN IF rest # <<>> /\ Head(rest) = "\""
                       THEN CsvRead(Tail(rest), TRUE, Append(field, c), row, rows)
                       ELSE CsvRead(rest, FALSE, field, row, rows)
                  ELSE CsvRead(rest, TRUE, Append(field, c), row, rows)
             ELSE IF c = "\"" THEN CsvRead(rest, TRUE, field, row, rows)
             ELSE IF c = ","
                  THEN CsvRead(rest, FALSE, <<>>, Append(row, field), rows)
             ELSE IF c = "\n"
                  THEN CsvRead(rest, FALSE, <<>>, <<>>,
                               Append(rows, Append(row, field)))
             ELSE CsvRead(rest, FALSE, Append(field, c), row, rows)

\* The seven fields of the row of entry e.
CsvFields(e) ==
    << <<ToString(e.id)>>, <<Isoformat(e.timestamp)>>, Pieces(e.user_id),
       <<e.action>>, <<e.resource_type>>, Pieces(e.resource_id),
       <<e.severity>> >>

\* C16: the CSV export is the header row followed by exactly one row of
\* seven fields for each exported entry, in the order of the export, also
\* when a user_id or a resource_id holds a comma or a newline.
C16_CsvOneRowPerEntry ==
    [][(call'.op = "export_logs" /\ call'.format = "csv") =>
        LET f == ExportFilters(call'.from_date, call'.to_date)
            exported == GetLogsResult(logs, f)
            rows == CsvRead(ret'.value, FALSE, <<>>, <<>>, <<>>)
        IN  /\ Len(rows) = 1 + Len(exported)
            /\ rows[1] = [i \in 1..7 |-> <<CsvHeader[2 * i - 1]>>]
            /\ \A i \in 1..Len(exported) :
                    rows[i + 1] = CsvFields(exported[i])]_vars

---------------------------------------------------------------------------
\* EncryptionService (encryption.py).  Python values, with their type.

StrValue(chars) == [type |-> "str", chars |-> chars]

BytesValue(bytes) == [type |-> "bytes", bytes |-> bytes]

IntValue(n) == [type |-> "int", n |-> n]

NoneValue == [type |-> "NoneType"]

\* The code points U+D800..U+DFFF, which no UTF-8 text holds.
IsSurrogate(cp) == cp >= 55296 /\ cp <= 57343

\* An encoding that writes one byte for every code point.
Latin1Bytes(cp) == <<cp % 256>>

\* The UTF-8 bytes of one code point of the basic plane.
Utf8Bytes(cp) ==
    IF cp < 128 THEN <<cp>>
    ELSE IF cp < 2048 THEN <<192 + (cp \div 64), 128 + (cp % 64)>>
    ELSE <<224 + (cp \div 4096), 128 + ((cp \div 64) % 64), 128 + (cp % 64)>>

\* str.encode('utf-8'): the bytes, or UnicodeEncodeError for a surrogate.
RECURSIVE Utf8Encode(_)
Utf8Encode(chars) ==
    IF chars = <<>> THEN Return(<<>>)
    ELSE IF IsSurrogate(Head(chars)) THEN Raise("UnicodeEncodeError")
    ELSE LET rest == Utf8Encode(Tail(chars))
         IN  IF rest.raised THEN rest
             ELSE Return(Utf8Bytes(Head(chars)) \o rest.value)

IsContinuation(b) == b >= 128 /\ b <= 191

\* bytes.decode('utf-8'): the code points, or UnicodeDecodeError for bytes
\* that are no UTF-8 text (a stray or missing continuation byte, an overlong
\* form, a surrogate, a lead byte above the basic plane).
RECURSIVE Utf8Decode(_)
Utf8Decode(bytes) ==
    IF bytes = <<>> THEN Return(<<>>)
    ELSE LET b == bytes[1]
             n == IF b < 128 THEN 1
                  ELSE IF b >= 194 /\ b <= 223 THEN 2
                  ELSE IF b >= 224 /\ b <= 239 THEN 3
                  ELSE 0
             wellFormed ==
                 /\ n > 0
                 /\ Len(bytes) >= n
                 /\ \A i \in 2..n : IsContinuation(bytes[i])
                 /\ (b = 224) => bytes[2] >= 160
                 /\ (b = 237) => bytes[2] <= 159
             cp == IF n = 1 THEN b
                   ELSE IF n = 2 THEN (b - 192) * 64 + (bytes[2] - 128)
                   ELSE (b - 224) * 4096 + (bytes[2] - 128) * 64
                        + (bytes[3] - 128)
         IN  IF ~wellFormed THEN Raise("UnicodeDecodeError")
             ELSE LET rest == Utf8Decode(SubSeq(bytes, n + 1, Len(bytes)))
                  IN  IF rest.raised THEN rest
                      ELSE Return(<<cp>> \o rest.value)

\* str(n) for n >= 0: the code points of its decimal digits.
RECURSIVE Digits(_)
Digits(n) ==
    IF n < 10 THEN <<48 + n>> ELSE Digits(n \div 10) \o <<48 + (n % 10)>>

\* str(value)
StrOf(value) ==
    IF value.type = "str" THEN value
    ELSE IF value.type = "int" THEN StrValue(Digits(value.n))
    ELSE StrValue(<<78, 111, 110, 101>>)

\* The salt and the iteration count of _initialize_fernet.
KdfIterations == 100000

\* The Fernet key _initialize_fernet derives: PBKDF2-HMAC-SHA256 of the
\* master key with the fixed salt, a function of the master key alone.
DeriveKey(master_key) ==
    <<"pbkdf2-sha256", "ssdp_brainsait_salt_v1", KdfIterations, master_key>>

\* A constructor that accepts a missing key and leaves it to the first use.
NewEncryptionServiceLazy(master_key, env) ==
    LET key == IF TruthyStr(master_key) THEN Val(master_key) ELSE env
    IN  Return([master_key |-> key,
                fernet |-> IF key = "" THEN None ELSE <<"pbkdf2-sha256",
                    "ssdp_brainsait_salt_v1", 100000, key>>])

\* EncryptionService(master_key), with the value of ENCRYPTION_MASTER_KEY
\* ("" when it is not set).
NewEncryptionService(master_key, env) ==
    LET key == IF TruthyStr(master_key) THEN Val(master_key) ELSE env
    IN  IF key = "" THEN Raise("ValueError")
        ELSE Return([master_key |-> key, fernet |-> DeriveKey(key)])

\* The integrity tag of a Fernet token.
Hmac(key, iv, payload) == <<"hmac-sha256", key, iv, payload>>

\* Fernet.encrypt: a token of a fresh iv, the encrypted payload and the tag,
\* as Fernet's own base64 text.
FernetEncrypt(key, payload, iv) ==
    [type |-> "bytes", iv |-> iv, payload |-> payload,
     hmac |-> Hmac(key, iv, payload)]

\* Fernet.decrypt: the payload of a token whose tag this key verifies,
\* InvalidToken for everything else.
FernetDecrypt(key, token) ==
    IF /\ "hmac" \in DOMAIN token
       /\ token.hmac = Hmac(key, token.iv, token.payload)
    THEN Return(token.payload)
    ELSE Raise("InvalidToken")

\* base64.urlsafe_b64encode(...).decode('utf-8'): the text that holds the
\* bytes.
B64Encode(bytes) == [type |-> "str", b64 |-> bytes]

\* The code points of the url-safe base64 alphabet and its padding.
IsB64Char(cp) ==
    \/ cp >= 65 /\ cp <= 90
    \/ cp >= 97 /\ cp <= 122
    \/ cp >= 48 /\ cp <= 57
    \/ cp \in {45, 95, 61}

\* base64.urlsafe_b64decode(text.encode('utf-8')): the bytes a base64 text
\* holds.  Of any other text the characters outside the alphabet are
\* dropped and the rest gives binascii.Error unless it comes in fours, in
\* which case it gives bytes that are no Fernet token.
B64Decode(text) ==
    IF "b64" \in DOMAIN text THEN Return(text.b64)
    ELSE LET encoded == Utf8Encode(text.chars)
             kept == {i \in 1..Len(text.chars) : IsB64Char(text.chars[i])}
         IN  IF encoded.raised THEN encoded
             ELSE IF Cardinality(kept) % 4 # 0 THEN Raise("binascii.Error")
             ELSE Return(BytesValue(<<>>))

\* The bytes of a text, for encrypt: a base64 text is ASCII and is kept whole.
EncodeText(text) ==
    IF "b64" \in DOMAIN text THEN Return([type |-> "bytes", ascii |-> text])
    ELSE LET encoded == Utf8Encode(text.chars)
         IN  IF encoded.raised THEN encoded
             ELSE Return(BytesValue(encoded.value))

\* The text of decrypted bytes.
DecodeText(bytes) ==
    IF "ascii" \in DOMAIN bytes THEN Return(bytes.ascii)
    ELSE LET decoded == Utf8Decode(bytes.bytes)
         IN  IF decoded.raised THEN decoded
             ELSE Return(StrValue(decoded.value))

\* EncryptionService.encrypt; iv is what os.urandom gives Fernet.
Encrypt(service, data, iv) ==
    IF data.type = "str"
    THEN LET encoded == EncodeText(data)
         IN  IF encoded.raised THEN encoded
             ELSE Return(B64Encode(FernetEncrypt(service.fernet,
                                                 encoded.value, iv)))
    ELSE IF data.type = "bytes"
    THEN Return(B64Encode(FernetEncrypt(service.fernet, data, iv)))
    ELSE Raise("TypeError")

\* EncryptionService.decrypt.
Decrypt(service, encrypted_data) ==
    IF encrypted_data.type # "str" THEN Raise("AttributeError")
    ELSE LET encrypted_bytes == B64Decode(encrypted_data)
         IN  IF encrypted_bytes.raised THEN encrypted_bytes
             ELSE LET decrypted == FernetDecrypt(service.fernet,
                                                 encrypted_bytes.value)
                  IN  IF decrypted.raised THEN decrypted
                      ELSE DecodeText(decrypted.value)

\* The loop of encrypt_dict over fields_to_encrypt.
RECURSIVE EncryptFields(_, _, _, _)
EncryptFields(service, encrypted_data, fields, iv) ==
    IF fields = <<>> THEN Return(encrypted_data)
    ELSE LET field == Head(fields)
         IN  IF /\ field \in DOMAIN encrypted_data
                /\ encrypted_data[field].type # "NoneType"
             THEN LET c == Encrypt(service, StrOf(encrypted_data[field]), iv)
                  IN  IF c.raised THEN c
                      ELSE EncryptFields(service,
                               [encrypted_data EXCEPT ![field] = c.value],
                               Tail(fields), iv)
             ELSE EncryptFields(service, encrypted_data, Tail(fields), iv)

\* A loop that lets an error of decrypt end the call.
RECURSIVE DecryptFieldsStrict(_, _, _)
DecryptFieldsStrict(service, decrypted_data, fields) ==
    IF fields = <<>> THEN Return(decrypted_data)
    ELSE LET field == Head(fields)
         IN  IF /\ field \in DOMAIN decrypted_data
                /\ decrypted_data[field].type # "NoneType"
             THEN LET d == Decrypt(service, decrypted_data[field])
                  IN  IF d.raised THEN d
                      ELSE DecryptFieldsStrict(service,
                               [decrypted_data EXCEPT ![field] = d.value],
                               Tail(fields))
             ELSE DecryptFieldsStrict(service, decrypted_data, Tail(fields))

\* The loop of decrypt_dict over fields_to_decrypt: an error of decrypt
\* leaves the field as it is.
RECURSIVE DecryptFields(_, _, _)
DecryptFields(service, decrypted_data, fields) ==
    IF fields = <<>> THEN Return(decrypted_data)
    ELSE LET field == Head(fields)
         IN  IF /\ field \in DOMAIN decrypted_data
                /\ decrypted_data[field].type # "NoneType"
             THEN LET d == Decrypt(service, decrypted_data[field])
                  IN  DecryptFields(service,
                          IF d.raised THEN decrypted_data
                          ELSE [decrypted_data EXCEPT ![field] = d.value],
                          Tail(fields))
             ELSE DecryptFields(service, decrypted_data, Tail(fields))

\* EncryptionService.encrypt, called by a client.
EncryptCall(service, data, iv) ==
    /\ ret' = Encrypt(service, data, iv)
    /\ call' = [op |-> "encrypt", service |-> service, data |-> data]
    /\ UNCHANGED <<logs, now, nextId, created, storageOk, threads, permissions,
                 encryption_service_instance, violations, request_counts, time, forwarded>>

\* EncryptionService.decrypt, called by a client; kind says where the
\* argument comes from.
DecryptCall(service, encrypted_data, kind) ==
    /\ ret' = Decrypt(service, encrypted_data)
    /\ call' = [op |-> "decrypt", service |-> service,
                encrypted_data |-> encrypted_data, kind |-> kind]
    /\ UNCHANGED <<logs, now, nextId, created, storageOk, threads, permissions,
                 encryption_service_instance, violations, request_counts, time, forwarded>>

\* An encrypt_dict that works on the caller's dict itself.
EncryptDictInPlace(service, data, fields_to_encrypt, iv) ==
    /\ ret' = EncryptFields(service, data, fields_to_encrypt, iv)
    /\ call' = [op |-> "encrypt_dict", service |-> service, data |-> data,
                fields |-> fields_to_encrypt,
                after |-> IF ret'.raised THEN data ELSE ret'.value]
    /\ UNCHANGED <<logs, now, nextId, created, storageOk, threads, permissions,
                 encryption_service_instance, violations, request_counts, time, forwarded>>

\* EncryptionService.encrypt_dict: the loop works on data.copy(); after is
\* the caller's dict once the call is over.
EncryptDict(service, data, fields_to_encrypt, iv) ==
    /\ ret' = EncryptFields(service, data, fields_to_encrypt, iv)
    /\ call' = [op |-> "encrypt_dict", service |-> service, data |-> data,
                fields |-> fields_to_encrypt, after |-> data]
    /\ UNCHANGED <<logs, now, nextId, created, storageOk, threads, permissions,
                 encryption_service_instance, violations, request_counts, time, forwarded>>

\* EncryptionService.decrypt_dict, likewise.
DecryptDict(service, data, fields_to_decrypt, kind) ==
    /\ ret' = DecryptFields(service, data, fields_to_decrypt)
    /\ call' = [op |-> "decrypt_dict", service |-> service, data |-> data,
                fields |-> fields_to_decrypt, after |-> data, kind |-> kind]
    /\ UNCHANGED <<logs, now, nextId, created, storageOk, threads, permissions,
                 encryption_service_instance, violations, request_counts, time, forwarded>>

\* EncryptionService(master_key), called by a client.
NewEncryptionServiceCall(master_key, env) ==
    /\ ret' = NewEncryptionService(master_key, env)
    /\ call' = [op |-> "EncryptionService", master_key |-> master_key,
                env |-> env]
    /\ UNCHANGED <<logs, now, nextId, created, storageOk, threads, permissions,
                 encryption_service_instance, violations, request_counts, time, forwarded>>

\* get_encryption_service(master_key): the module's instance, constructed by
\* the first call that succeeds; a failed construction leaves the global
\* unset.
GetEncryptionService(master_key, env) ==
    LET made == NewEncryptionService(master_key, env)
    IN  /\ IF IsNone(encryption_service_instance)
           THEN /\ ret' = made
                /\ encryption_service_instance' =
                        IF made.raised THEN None ELSE Some(made.value)
           ELSE /\ ret' = Return(Val(encryption_service_instance))
                /\ UNCHANGED encryption_service_instance
        /\ call' = [op |-> "get_encryption_service",
                    master_key |-> master_key, env |-> env,
                    before |-> encryption_service_instance]
        /\ UNCHANGED <<logs, now, nextId, created, storageOk, threads,
                       permissions, violations, request_counts, time,
                       forwarded>>

---------------------------------------------------------------------------
\* SpecCrypto: clients of three EncryptionService instances, two of them
\* constructed with the same master key.

\* 'A', e-acute, the euro sign, and the lone surrogate U+D800 (what
\* json.loads gives for "\ud800").
CodePoints == {65, 233, 8364, 55296}

\* The strings of at most MaxChars of these code points.
CryptoStrings ==
    UNION {[1..n -> CodePoints] : n \in 0..MaxChars}

\* The instance EncryptionService(master_key) gives, under a name.
ServiceOf(name, master_key) ==
    LET service == NewEncryptionService(Some(master_key), "").value
    IN  [name |-> name, master_key |-> service.master_key,
         fernet |-> service.fernet]

Services ==
    {ServiceOf("first", "key-a"), ServiceOf("second", "key-a"),
     ServiceOf("other", "key-b")}

\* What os.urandom gives.
Ivs == {1, 2}

CryptoData ==
    {StrValue(chars) : chars \in CryptoStrings}
        \cup {BytesValue(<<255>>), IntValue(42)}

\* A ciphertext that was changed after it was made: bytes of the payload
\* differ, the tag is the old one.
Corrupted(text) == [text EXCEPT !.b64.payload = BytesValue(<<66>>)]

\* Values that are no ciphertext of any instance: plain texts (one of them
\* four base64 characters long), a number, a corrupted ciphertext.
Undecryptable ==
    [plaintext |-> StrValue(<<65, 233>>),
     base64 |-> StrValue(<<65, 65, 65, 65>>),
     nonstring |-> IntValue(42),
     corrupted |->
        Corrupted(Encrypt(ServiceOf("first", "key-a"), StrValue(<<65>>), 1).value)]

CryptoNewService ==
    \E master_key \in {None, Some(""), Some("key-a")}, env \in {"", "key-b"} :
        NewEncryptionServiceCall(master_key, env)

CryptoGetService ==
    \E master_key \in {None, Some(""), Some("key-a")}, env \in {"", "key-b"} :
        GetEncryptionService(master_key, env)

CryptoEncrypt ==
    \E service \in Services, data \in CryptoData, iv \in Ivs :
        EncryptCall(service, data, iv)

\* encrypt by the module's instance, as get_encryption_service().encrypt.
CryptoEncryptGlobal ==
    /\ ~IsNone(encryption_service_instance)
    /\ \E data \in {StrValue(<<65>>)}, iv \in Ivs :
            EncryptCall(Val(encryption_service_instance), data, iv)

\* decrypt of what the last encrypt returned, by any instance.
CryptoDecryptLast ==
    /\ call.op = "encrypt"
    /\ ~ret.raised
    /\ \E service \in Services :
            DecryptCall(service, ret.value,
                        IF service.fernet = call.service.fernet
                        THEN "own" ELSE "foreign")

CryptoDecryptOther ==
    \E service \in Services, kind \in DOMAIN Undecryptable :
        DecryptCall(service, Undecryptable[kind], kind)

\* Records: fields present with a text, a number, null, or absent.
CryptoRecords ==
    {[name |-> StrValue(<<65>>), phone |-> StrValue(<<233, 8364>>),
      credit_limit |-> IntValue(42)],
     [name |-> StrValue(<<65>>), phone |-> NoneValue],
     [name |-> StrValue(<<>>), phone |-> StrValue(<<65>>)],
     [name |-> StrValue(<<65>>), phone |-> StrValue(<<55296>>)]}

FieldLists ==
    {<<>>, <<"phone">>, <<"phone", "credit_limit">>, <<"name", "phone">>,
     <<"phone", "phone">>, <<"iban">>}

CryptoEncryptDict ==
    \E service \in Services, data \in CryptoRecords, fields \in FieldLists,
       iv \in Ivs :
        EncryptDict(service, data, fields, iv)

\* decrypt_dict of what the last encrypt_dict returned, with the same list.
CryptoDecryptDictLast ==
    /\ call.op = "encrypt_dict"
    /\ ~ret.raised
    /\ \E service \in Services :
            DecryptDict(service, ret.value, call.fields,
                        [of |-> call.data,
                         own |-> service.fernet = call.service.fernet])

\* A record with a ciphertext of this key next to values that are none.
MixedRecord(service, kind) ==
    [name |-> Encrypt(service, StrValue(<<65, 233>>), 1).value,
     phone |-> Undecryptable[kind],
     iban |-> Encrypt(ServiceOf("other", "key-b"), StrValue(<<65>>), 1).value]

CryptoDecryptDictOther ==
    \E service \in {ServiceOf("first", "key-a")},
       kind \in DOMAIN Undecryptable,
       fields \in {<<"name", "phone">>, <<"phone", "name", "iban">>} :
        DecryptDict(service, MixedRecord(service, kind), fields,
                    [mixed |-> kind])

NextCrypto ==
    \/ CryptoNewService
    \/ CryptoGetService
    \/ CryptoEncrypt
    \/ CryptoEncryptGlobal
    \/ CryptoDecryptLast
    \/ CryptoDecryptOther
    \/ CryptoEncryptDict
    \/ CryptoDecryptDictLast
    \/ CryptoDecryptDictOther

SpecCrypto == Init /\ [][NextCrypto]_vars

\* A text that UTF-8 can hold: no lone surrogate in it.
Encodable(text) == \A i \in 1..Len(text.chars) : ~IsSurrogate(text.chars[i])

\* The instances constructed with the master key of service.
SameKey(service) == {o \in Services : o.master_key = service.master_key}

Occurrences(field, fields) ==
    Cardinality({i \in 1..Len(fields) : fields[i] = field})

\* A value that is a ciphertext.
IsCiphertext(value) == value.type = "str" /\ "b64" \in DOMAIN value

C19_DictRoundTrip ==
    [][/\ (call'.op = "encrypt_dict" /\ ~ret'.raised) =>
            DecryptFields(call'.service, ret'.value, call'.fields)
                = Return(call'.data)
       /\ (call'.op = "decrypt_dict" /\ "own" \in DOMAIN call'.kind) =>
            (call'.kind.own => ret' = Return(call'.kind.of))]_vars

\* The kinds of values no decrypt of the first instance accepts.
Refused == DOMAIN Undecryptable \cup {"foreign"}

---------------------------------------------------------------------------
\* Construction of the EncryptionService.

\* The key a construction has to work with: the argument, else the
\* environment; "" when there is neither.
KeyGiven(master_key, env) ==
    IF master_key # None /\ Val(master_key) # "" THEN Val(master_key) ELSE env

\* An instance that holds the key derived from a key that is there.
HasDerivedKey(service) ==
    /\ service.master_key # ""
    /\ service.fernet = DeriveKey(service.master_key)

---------------------------------------------------------------------------
\* ComplianceValidator (compliance.py).  A float is the double nearest to a
\* decimal, held as that decimal in ten-thousandths; the amounts of the
\* model have at most two decimals (one has three), so the product with
\* 0.15 is a whole number of ten-thousandths.

FloatValue(tt) == [type |-> "float", tt |-> tt]

ListValue(items) == [type |-> "list", items |-> items]

DictValue(d) == [type |-> "dict", d |-> d]

\* bool(value)
Truthy(value) ==
    CASE value.type = "NoneType" -> FALSE
      [] value.type = "str" -> value.chars # <<>>
      [] value.type = "int" -> value.n # 0
      [] value.type = "float" -> value.tt # 0
      [] value.type = "list" -> value.items # <<>>
      [] value.type = "dict" -> DOMAIN value.d # {}

\* "key in record" and "record[key] is None"
HasKey(record, key) == key \in DOMAIN record

IsNoneValue(value) == value.type = "NoneType"

IsNumber(value) == value.type \in {"int", "float"}

TenThousandths(value) ==
    IF value.type = "int" THEN value.n * 10000 ELSE value.tt

\* value * 0.15
TimesVatRate(value) == FloatValue((TenThousandths(value) * 15) \div 100)

\* The doubles of the model that sit half a cent between two cents, and
\* what round(x, 2) makes of them: 0.1 * 0.15 rounds to 0.01.
HalfCent == [tt \in {150} |-> 100]

\* round(value, 2): an int stays the int it is.
Round2(value) ==
    IF value.type = "int" THEN value
    ELSE LET r == value.tt % 100
         IN  FloatValue(IF r < 50 THEN value.tt - r
                        ELSE IF r > 50 THEN value.tt - r + 100
                        ELSE HalfCent[value.tt])

\* The pairs of amounts of the model one cent apart, and whether the
\* double their subtraction gives is above the double 0.01:
\* 0.15 - 0.16 is -0.010000000000000009 and 0.15 - 0.14 is
\* 0.009999999999999981; 150.0 - 150.01 is -0.009999999999990905.
OneCentApart ==
    [pair \in {<<1500, 1600>>, <<1500, 1400>>, <<1500000, 1500100>>,
               <<1500000, 1499900>>, <<100, 200>>, <<100, 0>>}
        |-> pair = <<1500, 1600>>]

\* abs(expected - actual) > 0.01, for amounts in whole cents
ExceedsOneCent(expected, actual) ==
    LET e == TenThousandths(expected)
        a == TenThousandths(actual)
        d == IF e > a THEN e - a ELSE a - e
    IN  IF d > 100 THEN TRUE
        ELSE IF d < 100 THEN FALSE
        ELSE OneCentApart[<<e, a>>]

ComplianceStandards == {"zatca", "pdpl", "hipaa", "nphies"}

\* ComplianceViolation(standard, severity, message, field, details); a
\* message is the tuple of the pieces of its f-string.
ComplianceViolation(standard, severity, message, field, details) ==
    [standard |-> standard, severity |-> severity, message |-> message,
     field |-> field,
     details |-> IF TruthyDict(details) THEN Val(details) ELSE EmptyDict,
     timestamp |-> now]

\* \d of a str pattern: the ASCII digits and the other decimal digits of
\* Unicode, of which the model has the Arabic-Indic ones.
IsDigit(cp) == cp \in 48..57 \/ cp \in 1632..1641 \/ cp \in 1776..1785

\* re.match(r'^3\d{12}03$', text): $ also matches before a final newline.
MatchesVatNumber(chars) ==
    /\ Len(chars) = 15 \/ (Len(chars) = 16 /\ chars[16] = 10)
    /\ chars[1] = 51
    /\ \A i \in 2..13 : IsDigit(chars[i])
    /\ chars[14] = 48
    /\ chars[15] = 51

\* The code points of 'description'.
DescriptionChars == <<100, 101, 115, 99, 114, 105, 112, 116, 105, 111, 110>>

\* needle in haystack, for two str
Contains(haystack, needle) ==
    \E i \in 1..(Len(haystack) - Len(needle) + 1) :
        SubSeq(haystack, i, i + Len(needle) - 1) = needle

RequiredZatcaFields ==
    <<"invoice_number", "issue_date", "issue_time", "supplier_vat_number",
      "customer_name", "line_items", "total_excluding_vat", "vat_amount",
      "total_including_vat">>

\* The loop over required_fields: one critical violation per field that
\* is absent or None, in the order of the list.
RECURSIVE ZatcaMissingFields(_, _)
ZatcaMissingFields(invoice, fields) ==
    IF fields = <<>> THEN <<>>
    ELSE LET field == Head(fields)
         IN  (IF ~HasKey(invoice, field) \/ IsNoneValue(invoice[field])
              THEN <<ComplianceViolation("zatca", "critical",
                        <<"Required field missing: ", field>>, field, None)>>
              ELSE <<>>)
             \o ZatcaMissingFields(invoice, Tail(fields))

\* The check of the VAT number's format.
ZatcaVatNumber(invoice) ==
    IF HasKey(invoice, "supplier_vat_number")
            /\ ~MatchesVatNumber(StrOf(invoice["supplier_vat_number"]).chars)
    THEN <<ComplianceViolation("zatca", "critical",
                <<"Invalid Saudi VAT number format. Must be 15 digits starting with 3 and ending with 03">>,
                "supplier_vat_number", None)>>
    ELSE <<>>

\* The check of the VAT calculation, made when the three totals are keys
\* of the invoice: multiplying or rounding a value that is no number raises
\* TypeError.
ZatcaVatCalculation(invoice) ==
    IF \A k \in {"total_excluding_vat", "vat_amount", "total_including_vat"} :
            HasKey(invoice, k)
    THEN IF ~IsNumber(invoice["total_excluding_vat"])
                \/ ~IsNumber(invoice["vat_amount"])
         THEN Raise("TypeError")
         ELSE LET expected_vat ==
                      Round2(TimesVatRate(invoice["total_excluding_vat"]))
                  actual_vat == Round2(invoice["vat_amount"])
              IN  IF ExceedsOneCent(expected_vat, actual_vat)
                  THEN Return(<<ComplianceViolation("zatca", "high",
                            <<"VAT calculation incorrect. Expected ",
                              expected_vat, ", got ", actual_vat>>,
                            "vat_amount",
                            Some([expected |-> expected_vat,
                                  actual |-> actual_vat]))>>)
                  ELSE Return(<<>>)
    ELSE Return(<<>>)

\* What enumerate(line_items) goes through: the items of a list, the
\* characters of a str; a number cannot be iterated.
ItemsOf(line_items) ==
    CASE line_items.type = "list" -> Return(line_items.items)
      [] line_items.type = "str" ->
            Return([i \in 1..Len(line_items.chars) |->
                        StrValue(<<line_items.chars[i]>>)])
      [] line_items.type \in {"int", "float"} -> Raise("TypeError")

\* 'description' not in item or not item['description'], for a dict, a
\* str (a substring test, and then an index that is no integer) and the
\* values that are no container.
ItemLacksDescription(item) ==
    CASE item.type = "dict" ->
            Return(~HasKey(item.d, "description")
                        \/ ~Truthy(item.d["description"]))
      [] item.type = "str" ->
            IF Contains(item.chars, DescriptionChars)
            THEN Raise("TypeError") ELSE Return(TRUE)
      [] item.type \in {"NoneType", "int", "float"} -> Raise("TypeError")

\* The loop over the line items, from item idx (counted from 0) on.
RECURSIVE ZatcaLineItemsFrom(_, _)
ZatcaLineItemsFrom(items, idx) ==
    IF idx >= Len(items) THEN Return(<<>>)
    ELSE LET lacks == ItemLacksDescription(items[idx + 1])
             rest == ZatcaLineItemsFrom(items, idx + 1)
         IN  IF lacks.raised THEN lacks
             ELSE IF rest.raised THEN rest
             ELSE Return((IF lacks.value
                          THEN <<ComplianceViolation("zatca", "medium",
                                    <<"Line item ", idx + 1,
                                      " missing description">>,
                                    "line_items[" \o ToString(idx)
                                        \o "].description", None)>>
                          ELSE <<>>) \o rest.value)

ZatcaLineItems(invoice) ==
    IF HasKey(invoice, "line_items") /\ Truthy(invoice["line_items"])
    THEN LET items == ItemsOf(invoice["line_items"])
         IN  IF items.raised THEN items
             ELSE ZatcaLineItemsFrom(items.value, 0)
    ELSE Return(<<>>)

\* validate_zatca_invoice(invoice): the four checks in their order; the
\* first error ends the call.
ValidateZatcaInvoiceResult(invoice) ==
    LET calculation == ZatcaVatCalculation(invoice)
        items == ZatcaLineItems(invoice)
    IN  IF calculation.raised THEN calculation
        ELSE IF items.raised THEN items
        ELSE Return(ZatcaMissingFields(invoice, RequiredZatcaFields)
                        \o ZatcaVatNumber(invoice)
                        \o calculation.value \o items.value)

\* _appears_encrypted(value): at least 20 characters, all of the base64
\* alphabets, '=' , '_' and '-' ($ also matches before a final newline).
IsBase64Like(cp) ==
    \/ cp \in 65..90 \/ cp \in 97..122 \/ cp \in 48..57
    \/ cp \in {43, 47, 61, 95, 45}

AppearsEncrypted(chars) ==
    IF Len(chars) < 20 THEN FALSE
    ELSE LET n == IF chars[Len(chars)] = 10 THEN Len(chars) - 1
                  ELSE Len(chars)
         IN  n >= 1 /\ \A i \in 1..n : IsBase64Like(chars[i])

\* The loop over the fields that have to be encrypted: one critical
\* violation per field that is there, truthy and does not look encrypted.
RECURSIVE UnencryptedFields(_, _, _, _)
UnencryptedFields(data, fields, standard, message) ==
    IF fields = <<>> THEN <<>>
    ELSE LET field == Head(fields)
         IN  (IF HasKey(data, field) /\ Truthy(data[field])
                    /\ ~AppearsEncrypted(StrOf(data[field]).chars)
              THEN <<ComplianceViolation(standard, "critical",
                        <<message[1], field, message[2]>>, field, None)>>
              ELSE <<>>)
             \o UnencryptedFields(data, Tail(fields), standard, message)

PiiFields ==
    <<"national_id", "iqama_id", "passport_number", "phone", "email",
      "address", "birth_date">>

\* The data types validate_pdpl_data asks a consent for: 'customer',
\* 'outlet', 'employee'.
ConsentTypes ==
    {StrValue(<<99, 117, 115, 116, 111, 109, 101, 114>>),
     StrValue(<<111, 117, 116, 108, 101, 116>>),
     StrValue(<<101, 109, 112, 108, 111, 121, 101, 101>>)}

\* validate_pdpl_data(data, data_type)
ValidatePdplDataResult(data, data_type) ==
    Return(UnencryptedFields(data, PiiFields, "pdpl",
                <<"PII field \"", "\" must be encrypted at rest">>)
           \o (IF data_type \in ConsentTypes
                    /\ (~HasKey(data, "consent_date")
                            \/ ~Truthy(data["consent_date"]))
               THEN <<ComplianceViolation("pdpl", "high",
                        <<"Data collection consent not documented">>,
                        "consent_date", None)>>
               ELSE <<>>))

PhiFields ==
    <<"patient_id", "medical_record_number", "diagnosis", "treatment",
      "prescription", "lab_results">>

\* validate_hipaa_phi(phi_data)
ValidateHipaaPhiResult(phi_data) ==
    Return(UnencryptedFields(phi_data, PhiFields, "hipaa",
                <<"PHI field \"", "\" must be encrypted">>))

RequiredNphiesFields ==
    <<"claim_id", "patient_id", "provider_id", "service_date",
      "diagnosis_code", "service_code">>

\* The code points of 'urn:oid:1.3.6.1.4.1.61026'.
OidPrefix ==
    <<117, 114, 110, 58, 111, 105, 100, 58, 49, 46, 51, 46, 54, 46, 49, 46, 52, 46, 49, 46, 54, 49, 48, 50, 54>>

\* text.startswith(prefix)
StartsWith(chars, prefix) ==
    Len(chars) >= Len(prefix) /\ SubSeq(chars, 1, Len(prefix)) = prefix

\* The loop over required_fields: one critical violation per field that
\* is absent or falsy.
RECURSIVE NphiesMissingFields(_, _)
NphiesMissingFields(claim, fields) ==
    IF fields = <<>> THEN <<>>
    ELSE LET field == Head(fields)
         IN  (IF ~HasKey(claim, field) \/ ~Truthy(claim[field])
              THEN <<ComplianceViolation("nphies", "critical",
                        <<"Required NPHIES field missing: ", field>>,
                        field, None)>>
              ELSE <<>>)
             \o NphiesMissingFields(claim, Tail(fields))

\* The OID check that takes any patient_id for one of the namespace.
NphiesOidUnchecked(claim) == <<>>

\* The check of the OID namespace of the patient_id.
NphiesOid(claim) ==
    IF HasKey(claim, "patient_id")
            /\ ~StartsWith(StrOf(claim["patient_id"]).chars, OidPrefix)
    THEN <<ComplianceViolation("nphies", "high",
                <<"Patient ID must use BrainSAIT OID namespace (1.3.6.1.4.1.61026)">>,
                "patient_id", None)>>
    ELSE <<>>

\* validate_nphies_claim(claim)
ValidateNphiesClaimResult(claim) ==
    Return(NphiesMissingFields(claim, RequiredNphiesFields)
                \o NphiesOid(claim))

\* data.get('type', 'unknown')
DataType(data) ==
    IF HasKey(data, "type") THEN data["type"]
    ELSE StrValue(<<117, 110, 107, 110, 111, 119, 110>>)

\* What validate_all asks of one standard.
ValidateStandard(data, standard) ==
    CASE standard = "zatca" -> ValidateZatcaInvoiceResult(data)
      [] standard = "pdpl" -> ValidatePdplDataResult(data, DataType(data))
      [] standard = "hipaa" -> ValidateHipaaPhiResult(data)
      [] standard = "nphies" -> ValidateNphiesClaimResult(data)

\* validate_all(data, standards): a dict from each known standard of the
\* list to its violations; an error of one validation ends the call.
ValidateAllResult(data, standards) ==
    LET known == {standards[i] : i \in 1..Len(standards)}
                    \cap ComplianceStandards
    IN  IF \E standard \in known : ValidateStandard(data, standard).raised
        THEN Raise("TypeError")
        ELSE Return([standard \in known |->
                        ValidateStandard(data, standard).value])

Severities == {"critical", "high", "medium", "low"}

\* The number of the violations of the list that P holds of.
CountWhere(list, P(_)) == Cardinality({i \in 1..Len(list) : P(list[i])})

\* A report that calls a validator compliant that has no critical
\* violation.
GetComplianceReportLenient(list) ==
    Return([total_violations |-> Len(list),
            by_standard |->
                [standard \in {list[i].standard : i \in 1..Len(list)} |->
                    LET Of(v) == v.standard = standard
                    IN  CountWhere(list, Of)],
            by_severity |->
                [severity \in Severities |->
                    LET Of(v) == v.severity = severity
                    IN  CountWhere(list, Of)],
            is_compliant |->
                ~\E i \in 1..Len(list) : list[i].severity = "critical",
            critical_violations |->
                LET Of(v) == v.severity = "critical"
                IN  CountWhere(list, Of)])

\* get_compliance_report(), of the accumulator list: a severity that is
\* none of the four counters is a KeyError.
GetComplianceReportResult(list) ==
    IF \E i \in 1..Len(list) : list[i].severity \notin Severities
    THEN Raise("KeyError")
    ELSE Return([total_violations |-> Len(list),
                 by_standard |->
                    [standard \in {list[i].standard : i \in 1..Len(list)} |->
                        LET Of(v) == v.standard = standard
                        IN  CountWhere(list, Of)],
                 by_severity |->
                    [severity \in Severities |->
                        LET Of(v) == v.severity = severity
                        IN  CountWhere(list, Of)],
                 is_compliant |-> Len(list) = 0,
                 critical_violations |->
                    LET Of(v) == v.severity = "critical"
                    IN  CountWhere(list, Of)])

\* Everything but the validator's accumulator and the last call.
ComplianceFrame ==
    UNCHANGED <<logs, now, nextId, created, storageOk, threads, permissions,
                encryption_service_instance, request_counts, time,
                forwarded>>

ValidateZatcaInvoice(invoice) ==
    /\ ret' = ValidateZatcaInvoiceResult(invoice)
    /\ call' = [op |-> "validate_zatca_invoice", data |-> invoice]
    /\ UNCHANGED violations
    /\ ComplianceFrame

ValidatePdplData(data, data_type) ==
    /\ ret' = ValidatePdplDataResult(data, data_type)
    /\ call' = [op |-> "validate_pdpl_data", data |-> data,
                data_type |-> data_type]
    /\ UNCHANGED violations
    /\ ComplianceFrame

ValidateHipaaPhi(phi_data) ==
    /\ ret' = ValidateHipaaPhiResult(phi_data)
    /\ call' = [op |-> "validate_hipaa_phi", data |-> phi_data]
    /\ UNCHANGED violations
    /\ ComplianceFrame

ValidateNphiesClaim(claim) ==
    /\ ret' = ValidateNphiesClaimResult(claim)
    /\ call' = [op |-> "validate_nphies_claim", data |-> claim]
    /\ UNCHANGED violations
    /\ ComplianceFrame

ValidateAll(data, standards) ==
    /\ ret' = ValidateAllResult(data, standards)
    /\ call' = [op |-> "validate_all", data |-> data,
                standards |-> standards]
    /\ UNCHANGED violations
    /\ ComplianceFrame

GetComplianceReport ==
    /\ ret' = GetComplianceReportResult(violations)
    /\ call' = [op |-> "get_compliance_report"]
    /\ UNCHANGED violations
    /\ ComplianceFrame

\* The owner of the validator puts a violation it made on the accumulator
\* (validator.violations is the owner's to fill).
AddViolation(standard, severity) ==
    /\ violations' = Append(violations,
            ComplianceViolation(standard, severity, <<"Test violation">>,
                                None, None))
    /\ call' = [op |-> "violations.append"]
    /\ ret' = Return(None)
    /\ ComplianceFrame

---------------------------------------------------------------------------
\* SpecCompliance: a client of one ComplianceValidator.

\* Violations the owner puts on the accumulator in one behaviour.
MaxViolations == 2

\* record without key, and record with key set to value
Without(record, key) == [k \in DOMAIN record \ {key} |-> record[k]]

With(record, key, value) ==
    [k \in DOMAIN record \cup {key} |-> IF k = key THEN value ELSE record[k]]

\* The invoice of test_valid_zatca_invoice, with short texts: 1000.00 plus
\* 150.00 of VAT, VAT number '301234567890003'.
ValidInvoice ==
    [invoice_number |-> StrValue(<<73>>),
     issue_date |-> StrValue(<<68>>),
     issue_time |-> StrValue(<<84>>),
     supplier_vat_number |-> StrValue(<<51, 48, 49, 50, 51, 52, 53, 54, 55, 56, 57, 48, 48, 48, 51>>),
     customer_name |-> StrValue(<<67>>),
     line_items |-> ListValue(<<DictValue([description |-> StrValue(<<88>>)])>>),
     total_excluding_vat |-> FloatValue(10000000),
     vat_amount |-> FloatValue(1500000),
     total_including_vat |-> FloatValue(11500000)]

\* (total_excluding_vat, vat_amount): 1000.0 with 150.0, 100.0, 150.01,
\* 149.99 and 150.014; 1.0 with 0.15, 0.16 and 0.14; 0.1 with 0.02 and 0.0;
\* the ints 1000 with 150 and 151.
InvoiceAmounts ==
    {<<FloatValue(10000000), FloatValue(1500000)>>,
     <<FloatValue(10000000), FloatValue(1000000)>>,
     <<FloatValue(10000000), FloatValue(1500100)>>,
     <<FloatValue(10000000), FloatValue(1499900)>>,
     <<FloatValue(10000000), FloatValue(1500140)>>,
     <<FloatValue(10000), FloatValue(1500)>>,
     <<FloatValue(10000), FloatValue(1600)>>,
     <<FloatValue(10000), FloatValue(1400)>>,
     <<FloatValue(1000), FloatValue(200)>>,
     <<FloatValue(1000), FloatValue(0)>>,
     <<IntValue(1000), IntValue(150)>>,
     <<IntValue(1000), IntValue(151)>>}

\* VAT numbers: the valid one, '123456789', the valid one followed by a
\* newline, one with Arabic-Indic digits, one of 14 digits, and null.
VatNumbers ==
    {StrValue(<<51, 48, 49, 50, 51, 52, 53, 54, 55, 56, 57, 48, 48, 48, 51>>),
     StrValue(<<49, 50, 51, 52, 53, 54, 55, 56, 57>>),
     StrValue(<<51, 48, 49, 50, 51, 52, 53, 54, 55, 56, 57, 48, 48, 48, 51, 10>>),
     StrValue(<<51, 1633, 1634, 51, 52, 53, 54, 55, 56, 57, 48, 49, 50, 48, 51>>),
     StrValue(<<51, 48, 49, 50, 51, 52, 53, 54, 55, 56, 57, 48, 48, 51>>),
     NoneValue}

LineItems ==
    {ListValue(<<>>),
     ListValue(<<DictValue([description |-> StrValue(<<88>>)]),
                 DictValue([quantity |-> IntValue(1)])>>),
     ListValue(<<DictValue([description |-> StrValue(<<>>)])>>),
     ListValue(<<NoneValue>>),
     ListValue(<<StrValue(<<88>>)>>),
     StrValue(<<88, 89>>),
     IntValue(5)}

\* Values that are no amount.
NoAmounts == {NoneValue, StrValue(<<49, 48, 48, 48, 46, 48>>)}

Invoices ==
    {[ValidInvoice EXCEPT !.total_excluding_vat = a[1], !.vat_amount = a[2]] :
        a \in InvoiceAmounts}
    \cup {[ValidInvoice EXCEPT !.supplier_vat_number = n] : n \in VatNumbers}
    \cup {[ValidInvoice EXCEPT !.line_items = l] : l \in LineItems}
    \cup {Without(ValidInvoice, f) :
            f \in {RequiredZatcaFields[i] : i \in 1..Len(RequiredZatcaFields)}}
    \cup {With(ValidInvoice, f, NoneValue) :
            f \in {RequiredZatcaFields[i] : i \in 1..Len(RequiredZatcaFields)}}
    \cup {With(ValidInvoice, f, v) :
            f \in {"total_excluding_vat", "vat_amount"}, v \in NoAmounts}
    \cup {Without([ValidInvoice EXCEPT !.vat_amount = FloatValue(1000000)],
                  "total_including_vat"),
          Without(Without(ValidInvoice, "customer_name"), "issue_date"),
          [k \in {} |-> k]}

\* The claim of test_valid_nphies_claim, with short texts.
ValidClaim ==
    [claim_id |-> StrValue(<<67>>),
     patient_id |-> StrValue(<<117, 114, 110, 58, 111, 105, 100, 58, 49, 46, 51, 46, 54, 46, 49, 46, 52, 46, 49, 46, 54, 49, 48, 50, 54, 46, 50, 46, 49, 58, 83, 65, 49>>),
     provider_id |-> StrValue(<<80>>),
     service_date |-> StrValue(<<68>>),
     diagnosis_code |-> StrValue(<<69>>),
     service_code |-> StrValue(<<57>>)]

\* Patient ids: of the namespace, the bare prefix, 'PT123456', of the
\* next enterprise number, the prefix one character short, the prefix in
\* capitals, of a longer enterprise number, empty, null and a number.
PatientIds ==
    {StrValue(<<117, 114, 110, 58, 111, 105, 100, 58, 49, 46, 51, 46, 54, 46, 49, 46, 52, 46, 49, 46, 54, 49, 48, 50, 54, 46, 50, 46, 49, 58, 83, 65, 49>>),
     StrValue(<<117, 114, 110, 58, 111, 105, 100, 58, 49, 46, 51, 46, 54, 46, 49, 46, 52, 46, 49, 46, 54, 49, 48, 50, 54>>),
     StrValue(<<80, 84, 49, 50, 51, 52, 53, 54>>),
     StrValue(<<117, 114, 110, 58, 111, 105, 100, 58, 49, 46, 51, 46, 54, 46, 49, 46, 52, 46, 49, 46, 54, 49, 48, 50, 55, 46, 50, 46, 49, 58, 83, 65, 49>>),
     StrValue(<<117, 114, 110, 58, 111, 105, 100, 58, 49, 46, 51, 46, 54, 46, 49, 46, 52, 46, 49, 46, 54, 49, 48, 50>>),
     StrValue(<<85, 82, 78, 58, 79, 73, 68, 58, 49, 46, 51, 46, 54, 46, 49, 46, 52, 46, 49, 46, 54, 49, 48, 50, 54, 46, 50, 46, 49>>),
     StrValue(<<117, 114, 110, 58, 111, 105, 100, 58, 49, 46, 51, 46, 54, 46, 49, 46, 52, 46, 49, 46, 54, 49, 48, 50, 54, 48, 46, 49>>),
     StrValue(<<>>),
     NoneValue,
     IntValue(5)}

\* Values that are empty.
EmptyValues == {NoneValue, StrValue(<<>>), IntValue(0), ListValue(<<>>)}

Claims ==
    {[ValidClaim EXCEPT !.patient_id = id] : id \in PatientIds}
    \cup {Without(ValidClaim, f) :
            f \in {RequiredNphiesFields[i] : i \in 1..Len(RequiredNphiesFields)}}
    \cup {With(ValidClaim, f, v) :
            f \in {"claim_id", "service_code"}, v \in EmptyValues}
    \cup {Without(Without(ValidClaim, "claim_id"), "patient_id"),
          [k \in {} |-> k]}

\* Personal data: a phone number in the clear, one that looks encrypted
\* (24 base64 characters), a null one; with and without a consent date.
PersonalData ==
    {[phone |-> StrValue(<<43, 57, 54, 54, 53, 48, 49, 50, 51, 52, 53, 54, 55>>), type |-> StrValue(<<99, 117, 115, 116, 111, 109, 101, 114>>)],
     [phone |-> StrValue(<<90, 48, 70, 66, 81, 85, 70, 66, 81, 109, 49, 102, 90, 87, 53, 106, 99, 110, 108, 119, 100, 71, 86, 107>>),
      consent_date |-> StrValue(<<68>>), type |-> StrValue(<<99, 117, 115, 116, 111, 109, 101, 114>>)],
     [phone |-> NoneValue, consent_date |-> NoneValue],
     [national_id |-> IntValue(1234567890), email |-> StrValue(<<>>),
      consent_date |-> StrValue(<<68>>)],
     [patient_id |-> StrValue(<<80, 84, 49, 50, 51, 52, 53, 54>>),
      diagnosis |-> StrValue(<<90, 48, 70, 66, 81, 85, 70, 66, 81, 109, 49, 102, 90, 87, 53, 106, 99, 110, 108, 119, 100, 71, 86, 107>>)]}

DataTypes == {StrValue(<<99, 117, 115, 116, 111, 109, 101, 114>>), StrValue(<<114, 101, 112, 111, 114, 116>>)}

StandardLists ==
    {<<>>, <<"zatca">>, <<"pdpl", "other">>,
     <<"zatca", "pdpl", "hipaa", "nphies">>}

DoValidateZatcaInvoice == \E invoice \in Invoices : ValidateZatcaInvoice(invoice)

DoValidatePdplData ==
    \E data \in PersonalData, data_type \in DataTypes :
        ValidatePdplData(data, data_type)

DoValidateHipaaPhi == \E data \in PersonalData : ValidateHipaaPhi(data)

DoValidateNphiesClaim == \E claim \in Claims : ValidateNphiesClaim(claim)

DoValidateAll ==
    \E data \in PersonalData
                \cup {ValidInvoice, ValidClaim,
                      With(ValidInvoice, "vat_amount", NoneValue)},
       standards \in StandardLists :
        ValidateAll(data, standards)

DoAddViolation ==
    /\ Len(violations) < MaxViolations
    /\ \E standard \in {"zatca", "pdpl"},
          severity \in {"critical", "low"} :
            AddViolation(standard, severity)

NextCompliance ==
    \/ DoValidateZatcaInvoice
    \/ DoValidatePdplData
    \/ DoValidateHipaaPhi
    \/ DoValidateNphiesClaim
    \/ DoValidateAll
    \/ GetComplianceReport
    \/ DoAddViolation

SpecCompliance == Init /\ [][NextCompliance]_vars

\* The violations of a list that are about the field, with the severity.
ViolationsOn(list, field, severity) ==
    SelectSeq(list, LAMBDA v : v.field = field /\ v.severity = severity)

\* vat_amount differs from 15% of total_excluding_vat by more than 0.01,
\* on the reals (in millionths).
OutsideTolerance(invoice) ==
    LET fifteen == TenThousandths(invoice["total_excluding_vat"]) * 15
        vat == TenThousandths(invoice["vat_amount"]) * 100
    IN  (IF fifteen > vat THEN fifteen - vat ELSE vat - fifteen) > 10000

CarriesAmounts(invoice) ==
    /\ HasKey(invoice, "total_excluding_vat")
    /\ HasKey(invoice, "vat_amount")
    /\ IsNumber(invoice["total_excluding_vat"])
    /\ IsNumber(invoice["vat_amount"])

\* C22: for every invoice that carries total_excluding_vat and vat_amount,
\* validate_zatca_invoice reports one high vat_amount violation, with the
\* expected 15% (to the cent) and the actual amount in its details, exactly
\* when vat_amount differs from 15% of total_excluding_vat by more than
\* 0.01, and none otherwise.
C22_VatViolationIffOutsideTolerance ==
    [][(call'.op = "validate_zatca_invoice" /\ CarriesAmounts(call'.data)) =>
            /\ ~ret'.raised
            /\ LET found == ViolationsOn(ret'.value, "vat_amount", "high")
                   fifteen ==
                       TenThousandths(call'.data["total_excluding_vat"]) * 15
               IN  IF OutsideTolerance(call'.data)
                   THEN /\ Len(found) = 1
                        /\ DOMAIN found[1].details = {"expected", "actual"}
                        /\ TenThousandths(found[1].details.actual)
                            = TenThousandths(call'.data["vat_amount"])
                        /\ TenThousandths(found[1].details.expected) * 100
                                \in (fifteen - 5000)..(fifteen + 5000)
                   ELSE found = <<>>]_vars

\* The required fields of an invoice that are absent or null.
MissingOf(invoice) ==
    {f \in {RequiredZatcaFields[i] : i \in 1..Len(RequiredZatcaFields)} :
        ~HasKey(invoice, f) \/ IsNoneValue(invoice[f])}

\* Every line item is a record with a non-empty description.
ItemsDescribed(invoice) ==
    /\ invoice["line_items"].type = "list"
    /\ \A i \in 1..Len(invoice["line_items"].items) :
            LET item == invoice["line_items"].items[i]
            IN  /\ item.type = "dict"
                /\ HasKey(item.d, "description")
                /\ Truthy(item.d["description"])

\* The text is 3, twelve digits, 03.
IsSaudiVatNumber(value) ==
    /\ value.type = "str"
    /\ MatchesVatNumber(value.chars)

\* The invoice meets every ZATCA rule.
ZatcaCompliant(invoice) ==
    /\ MissingOf(invoice) = {}
    /\ IsSaudiVatNumber(invoice["supplier_vat_number"])
    /\ CarriesAmounts(invoice)
    /\ ~OutsideTolerance(invoice)
    /\ ItemsDescribed(invoice)

\* C23: validate_zatca_invoice returns an empty list exactly when the
\* invoice has all nine required fields present and non-null, a matching
\* supplier_vat_number, a VAT amount within tolerance and a non-empty
\* description on every line item; each required field that is absent or
\* null gets one critical "required field missing" violation naming it, and
\* a supplier_vat_number that does not match gets a critical violation.
C23_ZatcaEmptyIffCompliant ==
    [][call'.op = "validate_zatca_invoice" =>
            /\ ~ret'.raised
            /\ (ret'.value = <<>>) <=> ZatcaCompliant(call'.data)
            /\ \A f \in {RequiredZatcaFields[i] :
                            i \in 1..Len(RequiredZatcaFields)} :
                    Len(SelectSeq(ViolationsOn(ret'.value, f, "critical"),
                            LAMBDA v : v.message[1] = "Required field missing: "))
                        = IF f \in MissingOf(call'.data) THEN 1 ELSE 0
            /\ (HasKey(call'.data, "supplier_vat_number")
                    /\ ~IsSaudiVatNumber(call'.data["supplier_vat_number"])) =>
                    \E i \in 1..Len(ret'.value) :
                        /\ ret'.value[i].field = "supplier_vat_number"
                        /\ ret'.value[i].severity = "critical"
                        /\ ret'.value[i].message[1]
                                # "Required field missing: "]_vars

\* The patient_id is a text that begins with the OID URN.
Prefixed(value) ==
    /\ value.type = "str"
    /\ Len(value.chars) >= Len(OidPrefix)
    /\ \A i \in 1..Len(OidPrefix) : value.chars[i] = OidPrefix[i]

\* The required fields of a claim that are absent or empty.
EmptyOf(claim) ==
    {f \in {RequiredNphiesFields[i] : i \in 1..Len(RequiredNphiesFields)} :
        ~HasKey(claim, f) \/ claim[f] \in EmptyValues}

\* C24: for every claim that has a patient_id, validate_nphies_claim
\* reports the one high-severity OID violation on patient_id when the
\* patient_id is not prefixed by urn:oid:1.3.6.1.4.1.61026 and none when it
\* is; each of the six required fields that is absent or empty gets one
\* critical violation and no other field gets one; a claim with all six
\* fields and a prefixed patient_id gets no violation.
C24_NphiesOidAndRequiredFields ==
    [][call'.op = "validate_nphies_claim" =>
            /\ ~ret'.raised
            /\ HasKey(call'.data, "patient_id") =>
                    Len(ViolationsOn(ret'.value, "patient_id", "high"))
                        = IF Prefixed(call'.data["patient_id"]) THEN 0 ELSE 1
            /\ \A f \in {RequiredNphiesFields[i] :
                            i \in 1..Len(RequiredNphiesFields)} :
                    Len(ViolationsOn(ret'.value, f, "critical"))
                        = IF f \in EmptyOf(call'.data) THEN 1 ELSE 0
            /\ (EmptyOf(call'.data) = {}
                    /\ Prefixed(call'.data["patient_id"])) =>
                    ret'.value = <<>>
            /\ \A i \in 1..Len(ret'.value) :
                    ret'.value[i].standard = "nphies"]_vars

\* A claim complete but for its patient_id of another enterprise number
\* got the OID violation and nothing else.
C24_Witness ==
    /\ call.op = "validate_nphies_claim"
    /\ EmptyOf(call.data) = {}
    /\ ~Prefixed(call.data["patient_id"])
    /\ Len(ret.value) = 1
    /\ ret.value[1].severity = "high"

\* The sum of the counts of a dict of counts.
RECURSIVE SumOf(_)
SumOf(counts) ==
    IF DOMAIN counts = {} THEN 0
    ELSE LET k == CHOOSE k \in DOMAIN counts : TRUE
         IN  counts[k] + SumOf([j \in DOMAIN counts \ {k} |-> counts[j]])

ValidateOps ==
    {"validate_zatca_invoice", "validate_pdpl_data", "validate_hipaa_phi",
     "validate_nphies_claim", "validate_all"}

\* C25: get_compliance_report tells of the accumulator: total_violations
\* is its length, the counts by standard and the counts by severity each
\* sum to that length, critical_violations is the number of its critical
\* violations, and is_compliant holds exactly when it is empty; and no
\* validate call changes the accumulator.
C25_ReportOfAccumulator ==
    [][/\ call'.op = "get_compliance_report" =>
            /\ ~ret'.raised
            /\ violations' = violations
            /\ ret'.value.total_violations = Len(violations)
            /\ SumOf(ret'.value.by_standard) = Len(violations)
            /\ SumOf(ret'.value.by_severity) = Len(violations)
            /\ ret'.value.critical_violations
                    = Cardinality({i \in 1..Len(violations) :
                                    violations[i].severity = "critical"})
            /\ ret'.value.critical_violations
                    = ret'.value.by_severity["critical"]
            /\ ret'.value.is_compliant <=> (violations = <<>>)
       /\ call'.op \in ValidateOps => violations' = violations]_vars

\* A report of two violations of two standards, none of them critical.
C25_Witness ==
    /\ call.op = "get_compliance_report"
    /\ Len(violations) = 2
    /\ Cardinality(DOMAIN ret.value.by_standard) = 2
    /\ ret.value.critical_violations = 0
    /\ ~ret.value.is_compliant

\* C26: validate_zatca_invoice, validate_pdpl_data, validate_hipaa_phi,
\* validate_nphies_claim, validate_all and get_compliance_report return
\* their violations for every record given to them and never raise.
C26_ComplianceNeverRaises ==
    (call.op \in ValidateOps \cup {"get_compliance_report"}) => ~ret.raised

---------------------------------------------------------------------------
\* SpecSweep: request-handling threads call log() and cleanup_old_logs() on
\* one shared logger.  cleanup_old_logs reads the clock, builds a new list
\* from self.logs one element at a time (the interpreter may switch threads
\* between two elements, and an element appended before the iteration has
\* reached the end is still visited) and then rebinds self.logs to the new
\* list.

\* cutoff_date = datetime.utcnow() - timedelta(...); the iteration begins.
ThreadCleanupBegin(t) ==
    /\ Free(t)
    /\ threads' = [threads EXCEPT ![t] =
                    [pc |-> "cleanup_iterating", op |-> "cleanup_old_logs",
                     cutoff_date |-> CutoffDate(now), index |-> 0,
                     kept |-> <<>>]]
    /\ UNCHANGED <<logs, now, nextId, created, storageOk, call, ret,
                   permissions, encryption_service_instance, violations,
                   request_counts, time, forwarded>>

\* One round of the list comprehension: the next element of self.logs, kept
\* if it is not older than the cutoff.
ThreadCleanupVisit(t) ==
    /\ Pc(t) = "cleanup_iterating"
    /\ threads[t].index < Len(logs)
    /\ LET log == logs[threads[t].index + 1]
       IN  threads' = [threads EXCEPT
                ![t].index = @ + 1,
                ![t].kept = IF log.timestamp >= threads[t].cutoff_date
                            THEN Append(@, log) ELSE @]
    /\ UNCHANGED <<logs, now, nextId, created, storageOk, call, ret,
                   permissions, encryption_service_instance, violations,
                   request_counts, time, forwarded>>

\* The iteration finds no further element: the new list is complete.
ThreadCleanupBuilt(t) ==
    /\ Pc(t) = "cleanup_iterating"
    /\ threads[t].index >= Len(logs)
    /\ threads' = [threads EXCEPT ![t].pc = "cleanup_built"]
    /\ UNCHANGED <<logs, now, nextId, created, storageOk, call, ret,
                   permissions, encryption_service_instance, violations,
                   request_counts, time, forwarded>>

\* self.logs = [...]: the store is rebound to the new list, and the call
\* returns.
ThreadCleanupStore(t) ==
    /\ Pc(t) = "cleanup_built"
    /\ logs' = threads[t].kept
    /\ threads' = [threads EXCEPT ![t] =
                    [pc |-> "done", op |-> "cleanup_old_logs",
                     ret |-> Return(None)]]
    /\ UNCHANGED <<now, nextId, created, storageOk, call, ret,
                   permissions, encryption_service_instance, violations,
                   request_counts, time, forwarded>>

NextSweep ==
    \/ \E t \in 1..NumThreads :
            ThreadLogBuild(t, "user123", "read", "outlet", "OUT001")
    \/ \E t \in 1..NumThreads : ThreadLogAppend(t)
    \/ \E t \in 1..NumThreads : ThreadLogReturn(t)
    \/ \E t \in 1..NumThreads : ThreadCleanupBegin(t)
    \/ \E t \in 1..NumThreads : ThreadCleanupVisit(t)
    \/ \E t \in 1..NumThreads : ThreadCleanupBuilt(t)
    \/ \E t \in 1..NumThreads : ThreadCleanupStore(t)
    \/ DoTick

SpecSweep == Init /\ [][NextSweep]_vars

\* C27: when cleanup_old_logs runs concurrently with log(), in every
\* interleaving an entry whose timestamp is within the retention period is
\* still in the store once the calls have finished.
C27_SweepKeepsFreshEntries ==
    Quiescent =>
        \A e \in Range(created) :
            e.timestamp > CutoffDate(now) =>
                \E i \in 1..Len(logs) : logs[i].id = e.id

---------------------------------------------------------------------------
\* SecureEndpoint (middleware.py): the decorator around an endpoint
\* function.  Credentials are None or a bearer token; a request is None or
\* a record of its path, its method, its x-forwarded-for header and its
\* client host (each of the two None when it is not there).

\* HTTPException(status_code=...)
HttpException(status_code, detail) ==
    Raise([error |-> "HTTPException", status_code |-> status_code,
           detail |-> detail])

\* SecureEndpoint._extract_user_id
ExtractUserId(credentials) ==
    IF IsNone(credentials) THEN "anonymous" ELSE "current_user"

\* A role extraction that gives a caller without credentials no role.
ExtractUserRoleEmpty(credentials) ==
    IF IsNone(credentials) THEN "" ELSE "super_admin"

\* SecureEndpoint._extract_user_role
ExtractUserRole(credentials) ==
    IF IsNone(credentials) THEN "anonymous" ELSE "super_admin"

\* The truth value of required_permission: None and '' are falsy.
TruthyPermission(required_permission) ==
    ~IsNone(required_permission) /\ Val(required_permission) # <<"">>

\* request.headers.get("x-forwarded-for", request.client.host if
\* request.client else "unknown")
EndpointClientIp(request) ==
    IF ~IsNone(request.forwarded_for) THEN Val(request.forwarded_for)
    ELSE IF ~IsNone(request.client) THEN Val(request.client)
    ELSE "unknown"

\* kwargs.get('id') or kwargs.get('resource_id') or 'unknown'
EndpointResourceId(kwargs) ==
    IF TruthyStr(kwargs.id) THEN Val(kwargs.id)
    ELSE IF TruthyStr(kwargs.resource_id) THEN Val(kwargs.resource_id)
    ELSE "unknown"

\* The wrapper SecureEndpoint.__call__ puts around an endpoint function,
\* called with request, credentials and the other keyword arguments.  The
\* endpoint function, when it is run, sees the audit store as it is then
\* and its result is what the wrapper returns.
SecureEndpointCall(endpoint, request, credentials, kwargs) ==
    LET user_id == ExtractUserId(credentials)
        user_role == ExtractUserRole(credentials)
        checked == TruthyPermission(endpoint.required_permission)
                        /\ user_role # ""
        denied == checked
                    /\ ~HasPermission(user_role,
                                      Val(endpoint.required_permission))
        event ==
            NewAuditLog(user_id, "access_denied", "system", "security_event",
                Some(SecurityEventDetails("unauthorized_access",
                    Some([required_permission |->
                                Val(endpoint.required_permission),
                          user_role |-> user_role,
                          endpoint |-> Val(request).path,
                          method |-> Val(request).method]))),
                None, None, "warning")
        access ==
            NewAuditLog(user_id, endpoint.audit_action,
                endpoint.resource_type, EndpointResourceId(kwargs),
                Some([endpoint |-> Val(request).path,
                      method |-> Val(request).method,
                      user_role |-> user_role]),
                Some(EndpointClientIp(Val(request))), None, "info")
        e == IF denied THEN event ELSE access
    IN  /\ nextId <= MaxEntries
        /\ IF IsNone(request)
           THEN /\ ret' = HttpException(500, "Request object not found")
                /\ call' = [op |-> "secure_endpoint", endpoint |-> endpoint,
                            request |-> request, credentials |-> credentials,
                            kwargs |-> kwargs, handler |-> None]
                /\ UNCHANGED <<logs, nextId, created>>
           ELSE /\ logs' = Append(logs, e)
                /\ nextId' = nextId + 1
                /\ created' = Append(created, e)
                /\ ret' = IF PersistLog(e) # "ok"
                          THEN Raise("PersistenceFailure")
                          ELSE IF denied
                          THEN HttpException(403, "Insufficient permissions")
                          ELSE Return("result of the endpoint function")
                /\ call' = [op |-> "secure_endpoint", endpoint |-> endpoint,
                            request |-> request, credentials |-> credentials,
                            kwargs |-> kwargs,
                            handler |-> IF PersistLog(e) = "ok" /\ ~denied
                                        THEN Some([store |-> logs'])
                                        ELSE None]
        /\ UNCHANGED <<now, storageOk, threads, permissions,
                       encryption_service_instance, violations,
                       request_counts, time, forwarded>>

\* SpecEndpoint: requests to endpoints wrapped by SecureEndpoint.

Endpoints ==
    {[required_permission |-> p, resource_type |-> "outlet",
      audit_action |-> "read"] :
        p \in {None, Some(<<"">>), Some(<<"read", "outlet">>),
               Some(<<"delete", "order">>)}}

Requests ==
    {None,
     Some([path |-> "/outlets", method |-> "GET",
           forwarded_for |-> Some("10.0.0.1"), client |-> Some("127.0.0.1")]),
     Some([path |-> "/outlets", method |-> "GET",
           forwarded_for |-> None, client |-> None])}

DoSecureEndpoint ==
    \E endpoint \in Endpoints, request \in Requests,
       credentials \in {None, Some("token")},
       kwargs \in {[id |-> None, resource_id |-> None],
                   [id |-> Some("OUT001"), resource_id |-> None]} :
        SecureEndpointCall(endpoint, request, credentials, kwargs)

NextEndpoint ==
    \/ DoSecureEndpoint
    \/ DoVerifyLogIntegrity

SpecEndpoint == Init /\ [][NextEndpoint]_vars

\* C28: the endpoint function behind SecureEndpoint runs only if no
\* permission is required or has_permission(role, required permission)
\* holds.  On denial one unauthorized_access security event is appended to
\* the audit store, HTTP 403 is raised and the function is not run; on grant
\* one audit entry of the access is appended and is in the store when the
\* function starts; a caller without credentials is denied for every
\* required permission.
C28_EndpointRunsOnlyWhenPermitted ==
    [][(call'.op = "secure_endpoint" /\ ~IsNone(call'.request)) =>
        LET required == call'.endpoint.required_permission
            needed == required # None /\ Val(required) # <<"">>
            role == IF IsNone(call'.credentials) THEN "anonymous"
                    ELSE "super_admin"
            granted == ~needed \/ HasPermission(role, Val(required))
            added == Last(logs')
        IN  /\ Len(logs') = Len(logs) + 1
            /\ SubSeq(logs', 1, Len(logs)) = logs
            /\ (needed /\ IsNone(call'.credentials)) => ~granted
            /\ IF granted
               THEN /\ ~IsNone(call'.handler)
                    /\ Val(call'.handler).store = logs'
                    /\ ~ret'.raised
                    /\ added.action = call'.endpoint.audit_action
                    /\ added.resource_type = call'.endpoint.resource_type
                    /\ added.details.user_role = role
               ELSE /\ IsNone(call'.handler)
                    /\ ret'.raised
                    /\ ret'.value.status_code = 403
                    /\ added.action = "access_denied"
                    /\ added.details.event_type = "unauthorized_access"
                    /\ added.details.required_permission = Val(required)]_vars

\* A caller without credentials asked for an endpoint that requires
\* read:outlet: refused with 403, the event is the last entry of the store.
C28_Witness ==
    /\ call.op = "secure_endpoint"
    /\ IsNone(call.credentials)
    /\ call.endpoint.required_permission = Some(<<"read", "outlet">>)
    /\ ret.raised
    /\ ret.value.status_code = 403
    /\ IsNone(call.handler)
    /\ Last(logs).details.event_type = "unauthorized_access"

---------------------------------------------------------------------------
\* SecurityMiddleware (middleware.py).  A scope is a record of its type, its
\* x-forwarded-for header (the tuple of the addresses between its commas,
\* None when there is no header), its client host (None when there is none),
\* its path and its method.  The requests passed on to the app are kept per
\* client address, for the scopes that are no HTTP requests under their
\* type.

\* The defaults of _is_rate_limited.
MaxRequestsPerWindow == 100

WindowSeconds == 60

\* SecurityMiddleware._get_client_ip
GetClientIp(scope) ==
    IF ~IsNone(scope.forwarded_for) /\ Val(scope.forwarded_for) # <<>>
    THEN Val(scope.forwarded_for)[1]
    ELSE IF ~IsNone(scope.client) THEN Val(scope.client)
    ELSE "unknown"

\* What _is_rate_limited leaves of the timestamps of ip: those less than
\* window_seconds old.
RecentRequests(ip, window_seconds) ==
    SelectSeq(request_counts[ip], LAMBDA ts : time - ts < window_seconds)

\* A rate limit that lets the request in that reaches the limit.
IsRateLimitedAbove(ip, max_requests, window_seconds) ==
    /\ ip \in DOMAIN request_counts
    /\ Len(RecentRequests(ip, window_seconds)) > max_requests

\* SecurityMiddleware._is_rate_limited: what it returns
IsRateLimited(ip, max_requests, window_seconds) ==
    /\ ip \in DOMAIN request_counts
    /\ Len(RecentRequests(ip, window_seconds)) >= max_requests

\* SecurityMiddleware._is_rate_limited: what it does to request_counts
PrunedCounts(ip, window_seconds) ==
    IF ip \in DOMAIN request_counts
    THEN [request_counts EXCEPT ![ip] = RecentRequests(ip, window_seconds)]
    ELSE request_counts

\* dict[key].append(value), of a dict of lists, with a new list for a new
\* key
AppendTo(dict, key, value) ==
    [k \in DOMAIN dict \cup {key} |->
        IF k = key
        THEN Append(IF key \in DOMAIN dict THEN dict[key] ELSE <<>>, value)
        ELSE dict[k]]

\* SecurityMiddleware._track_request, after _is_rate_limited
TrackRequest(counts, ip) == AppendTo(counts, ip, time)

\* SecurityMiddleware.__call__(scope, receive, send): what is sent back
\* is the app's response, or the 429 of the middleware.
MiddlewareCall(scope) ==
    LET client_ip == GetClientIp(scope)
        limited == IsRateLimited(client_ip, MaxRequestsPerWindow,
                                 WindowSeconds)
        event ==
            NewAuditLog("anonymous", "access_denied", "system",
                "security_event",
                Some(SecurityEventDetails("rate_limit_exceeded",
                    Some([ip_address |-> client_ip, path |-> scope.path,
                          method |-> scope.method]))),
                None, None, "warning")
    IN  /\ call' = [op |-> "middleware", scope |-> scope]
        /\ IF scope.type # "http"
           THEN /\ forwarded' = AppendTo(forwarded, scope.type, time)
                /\ ret' = Return([sent_by |-> "app"])
                /\ UNCHANGED <<logs, nextId, created, request_counts>>
           ELSE IF limited
           THEN /\ nextId <= MaxEntries
                /\ request_counts' = PrunedCounts(client_ip, WindowSeconds)
                /\ logs' = Append(logs, event)
                /\ nextId' = nextId + 1
                /\ created' = Append(created, event)
                /\ ret' = IF PersistLog(event) = "ok"
                          THEN Return([sent_by |-> "middleware", status |-> 429,
                                detail |-> "Rate limit exceeded. Please try again later."])
                          ELSE Raise("PersistenceFailure")
                /\ UNCHANGED forwarded
           ELSE /\ request_counts' =
                        TrackRequest(PrunedCounts(client_ip, WindowSeconds),
                                     client_ip)
                /\ forwarded' = AppendTo(forwarded, client_ip, time)
                /\ ret' = Return([sent_by |-> "app"])
                /\ UNCHANGED <<logs, nextId, created>>
        /\ UNCHANGED <<now, storageOk, threads, permissions,
                       encryption_service_instance, violations, time>>

\* time.time() moves on.
TimePasses(seconds) ==
    /\ time' = time + seconds
    /\ call' = [op |-> "time passes", seconds |-> seconds]
    /\ ret' = Return(None)
    /\ UNCHANGED <<logs, now, nextId, created, storageOk, threads,
                   permissions, encryption_service_instance, violations,
                   request_counts, forwarded>>

\* SpecMiddleware: one client sends HTTP requests in bursts, directly and
\* through a proxy; one other request comes in around the first burst.

\* The instants at which requests arrive, after the first.
MaxInstants == 2

FirstClient == "10.0.0.1"

\* The requests of one burst, and the seconds between two bursts.
Burst == MaxRequestsPerWindow \div 2

Pause == WindowSeconds \div 2

Passed(key) == IF key \in DOMAIN forwarded THEN Len(forwarded[key]) ELSE 0

Scopes ==
    {[type |-> "http", forwarded_for |-> None, client |-> Some(FirstClient),
      path |-> "/outlets", method |-> "GET"],
     [type |-> "http", forwarded_for |-> Some(<<FirstClient, "10.9.9.9">>),
      client |-> Some("10.9.9.9"), path |-> "/outlets", method |-> "GET"],
     [type |-> "http", forwarded_for |-> None, client |-> Some("10.0.0.2"),
      path |-> "/outlets", method |-> "GET"],
     [type |-> "http", forwarded_for |-> None, client |-> None,
      path |-> "/outlets", method |-> "GET"],
     [type |-> "websocket", forwarded_for |-> None,
      client |-> Some(FirstClient), path |-> "/ws", method |-> "GET"]}

DoMiddlewareCall ==
    \E scope \in Scopes :
        /\ \/ scope.type = "http" /\ GetClientIp(scope) = FirstClient
           \/ /\ DOMAIN forwarded \subseteq {FirstClient}
              /\ Passed(FirstClient) % Burst = 0
              /\ time = 0
        /\ MiddlewareCall(scope)

DoTimePasses ==
    /\ time + Pause <= MaxInstants * Pause
    /\ Passed(FirstClient) % Burst = 0
    /\ TimePasses(Pause)

NextMiddleware ==
    \/ DoMiddlewareCall
    \/ DoTimePasses

SpecMiddleware == Init /\ [][NextMiddleware]_vars

\* The requests of a client passed on in the window_seconds up to t.
PassedInWindow(history, key, t) ==
    IF key \notin DOMAIN history THEN 0
    ELSE Cardinality({i \in 1..Len(history[key]) :
                        /\ history[key][i] <= t
                        /\ t - history[key][i] < WindowSeconds})

\* C29: an HTTP request of a client address is passed on to the app only if
\* fewer than 100 requests of that address were passed on in the preceding
\* 60 seconds, so that no 60-second window holds more than 100 of them; a
\* request over the limit is answered with 429, appends one
\* rate_limit_exceeded security event, is not passed on and is not counted,
\* so that the address is served again when the older requests have aged
\* out.
C29_RateLimitPerWindow ==
    [][(call'.op = "middleware" /\ call'.scope.type = "http") =>
        LET ip == GetClientIp(call'.scope)
            recent == PassedInWindow(forwarded, ip, time)
        IN  /\ IF recent < 100
               THEN /\ ret' = Return([sent_by |-> "app"])
                    /\ Len(forwarded'[ip]) = Passed(ip) + 1
                    /\ Last(forwarded'[ip]) = time
                    /\ logs' = logs
               ELSE /\ ret'.value.sent_by = "middleware"
                    /\ ret'.value.status = 429
                    /\ forwarded' = forwarded
                    /\ Len(logs') = Len(logs) + 1
                    /\ Last(logs').action = "access_denied"
                    /\ Last(logs').details.event_type = "rate_limit_exceeded"
                    /\ Last(logs').details.ip_address = ip
                    /\ Len(request_counts'[ip]) = recent
            /\ \A key \in DOMAIN forwarded' \ {"websocket"} :
                    \A t \in {forwarded'[key][i] :
                                i \in 1..Len(forwarded'[key])} :
                        PassedInWindow(forwarded', key, t) <= 100]_vars

\* The first client was refused once and, a window later, is served again.
C29_Witness ==
    /\ call.op = "middleware"
    /\ call.scope.type = "http"
    /\ GetClientIp(call.scope) = FirstClient
    /\ ret = Return([sent_by |-> "app"])
    /\ Passed(FirstClient) > 100
    /\ logs # <<>>
    /\ Last(logs).details.ip_address = FirstClient

---------------------------------------------------------------------------
\* SpecUncovered: access decisions are logged, some code writes to a field
\* of a stored entry that the checksum is not computed from (at most once
\* per entry), and integrity is verified by id.

UncoveredFields == {"details", "ip_address", "user_agent", "severity"}

\* What is written into entry e: the access decision flipped, another
\* address, another agent, the severity lowered to info (raised to
\* critical, for an entry that is info).
UncoveredValues(e, field) ==
    CASE field = "details" ->
            {[k \in DOMAIN e.details |->
                IF k = "access_granted" THEN ~e.details[k]
                ELSE e.details[k]]}
      [] field = "ip_address" -> {Some("203.0.113.9")}
      [] field = "user_agent" -> {Some("curl/8.0")}
      [] field = "severity" ->
            {IF e.severity = "info" THEN "critical" ELSE "info"}

UncoveredLog ==
    \E user_role \in {"sales_rep", "ghost"} :
        CheckAccess("user123", user_role, "read", "outlet", "OUT001",
                    Some("10.0.0.1"))

DoTamperUncovered ==
    \E i \in 1..Len(logs), field \in UncoveredFields :
        \E value \in UncoveredValues(logs[i], field) :
            /\ Untouched(logs[i])
            /\ Tamper(i, field, value)

NextUncovered ==
    \/ UncoveredLog
    \/ DoTamperUncovered
    \/ DoVerifyLogIntegrity

SpecUncovered == Init /\ [][NextUncovered]_vars

\* C30: the checksum of an AuditLog covers timestamp, user_id, action,
\* resource_type and resource_id only: after details, ip_address,
\* user_agent or severity of a stored entry has been changed (the access
\* decision flipped, a warning lowered to info), verify_integrity of the
\* entry and verify_log_integrity of its id still return true.
C30_UncoveredFieldsStillVerify ==
    [][/\ (call'.op = "tamper" /\ call'.field \in UncoveredFields) =>
            \A i \in 1..Len(logs) :
                /\ logs'[i].checksum = logs[i].checksum
                /\ VerifyIntegrity(logs[i]) => VerifyIntegrity(logs'[i])
       /\ (call'.op = "verify_log_integrity" /\ call'.log_id \in StoredIds) =>
            /\ ret' = Return(TRUE)
            /\ VerifyIntegrity(Stored(call'.log_id))]_vars

\* A denied access was logged as a warning, its severity was then lowered
\* to info, and verify_log_integrity of its id returned true.
C30_Witness ==
    /\ call.op = "verify_log_integrity"
    /\ call.log_id \in StoredIds
    /\ created[call.log_id].severity = "warning"
    /\ Stored(call.log_id).severity = "info"
    /\ ret = Return(TRUE)
====
